---- MODULE Spec2Model ----
(***************************************************************************)
(* Model of reflect-steroids: the capability registry and casting engine  *)
(* (src/src/cast.rs, src/src/dynamic_trait.rs), the ambient registry      *)
(* (src/src/type_registry.rs) and the type-tagged codec                    *)
(* (src/src/serialization/ser.rs, de.rs, value.rs).                        *)
(*                                                                         *)
(* Data is written as tagged tuples <<tag, payload>>, so that any two      *)
(* values are comparable: the tag decides the shape of the payload.        *)
(*   wire tree (what a serializer is handed):                              *)
(*       <<"Int", n>>  <<"Str", s>>  <<"Seq", <<w..>>>>                    *)
(*       <<"Map", << <<key, w>>, .. >>>>  (entries in emission order)      *)
(*   captured Value (value.rs:15-44):                                      *)
(*       <<"U64", n>> <<"I64", n>> <<"Str", s>> <<"Seq", ..>>              *)
(*       <<"Map", << <<keyValue, value>>, .. >>>>                          *)
(*   runtime object: <<type id, body>>                                     *)
(*   results: <<"Ok", x>>  <<"Err", e>>  <<"Panic", message>>              *)
(***************************************************************************)
EXTENDS Integers, Sequences, FiniteSets, TLC

(***************************************************************************)
(* Bounds of the model.                                                    *)
(***************************************************************************)
\* integers stored in the test types range over -1..MaxNum
MaxNum == 0
\* a tagged value has at most MaxNodes tagged nodes (Nested counts as one)
MaxNodes == 3
\* nesting depth of set_current scopes
MaxScopes == 2
\* heap addresses the allocator may hand out
MaxAddr == 2
\* threads of the program
MaxThreads == 2
\* nesting depth of the composites of a captured input
MaxDepth == 2
\* items of a captured sequence or map
MaxItems == 2

Nums == (0 - 1)..MaxNum

(***************************************************************************)
(* The client program's types.  They are the types of the repository's     *)
(* tests: Foo/Bar/i32/Nested of serialization/mod.rs, Foo of               *)
(* dynamic_trait.rs, and one struct that owns a field called `type`.       *)
(***************************************************************************)
I32 == "i32"
FooS == "serialization::tests::Foo"
FooD == "dynamic_trait::tests::Foo"
Bar == "serialization::tests::Bar"
Nested == "serialization::tests::Nested"
Typed == "serialization::tests::Typed"

TypeIds == {I32, FooS, FooD, Bar, Nested, Typed}
\* Trait1/Trait2 of dynamic_trait.rs, MyTrait of serialization/mod.rs
Traits == {"Trait1", "Trait2", "MyTrait"}

\* TypeRegistration::short_name(): the type name without its module path
ShortName(t) ==
    CASE t = I32 -> "i32"
      [] t = FooS -> "Foo"
      [] t = FooD -> "Foo"
      [] t = Bar -> "Bar"
      [] t = Nested -> "Nested"
      [] t = Typed -> "Typed"

\* structural shape: ReflectRef of a value, TypeInfo of its registration
Shape(t) ==
    CASE t = I32 -> "Value"
      [] t = Bar -> "TupleStruct"
      [] OTHER -> "Struct"

\* field names in declaration order (positions for the tuple struct)
FieldNames(t) ==
    CASE t = FooS -> <<"num">>
      [] t = FooD -> <<"num">>
      [] t = Bar -> <<"0", "1">>
      [] t = Nested -> <<"a", "b">>
      [] t = Typed -> <<"type">>
      [] OTHER -> <<>>

\* field types: a plain i32, or a Box<dyn MyTrait> holding a tagged value
FieldKinds(t) ==
    CASE t = FooS -> <<"i32">>
      [] t = FooD -> <<"i32">>
      [] t = Bar -> <<"i32", "i32">>
      [] t = Nested -> <<"dyn", "dyn">>
      [] t = Typed -> <<"i32">>
      [] OTHER -> <<>>

\* the type data a registration starts with: #[reflect(..)] of the type, or
\* what TypeRegistry::default() registers for a primitive
DeclaredData(t) ==
    CASE t = I32 -> {"Serialize", "Deserialize"}
      [] t = FooD -> {"Trait1", "Trait2"}
      [] OTHER -> {"MyTrait", "Serialize", "Deserialize"}

\* the traits the Rust type implements (impl Trait for T)
Impls(t) ==
    CASE t = FooD -> {"Trait1", "Trait2"}
      [] OTHER -> {"MyTrait"}

TypeId(this) == this[1]
Body(this) == this[2]

Ok(x) == <<"Ok", x>>
Err(e) == <<"Err", e>>
IsOk(r) == r[1] = "Ok"
IsErr(r) == r[1] = "Err"
IsPanic(r) == r[1] = "Panic"

\* the variants of TypeError; a TypeError is <<variant, field, ..>>
TypeErrors == {"UnregisteredType", "UnregisteredShortName", "UnregisteredTrait"}

\* Display of TypeError (thiserror): the message, as the sequence of its pieces
Display(e) ==
    CASE e[1] = "UnregisteredType" -> <<"unregistered type: ", e[2]>>
      [] e[1] = "UnregisteredShortName" ->
            <<"unknown short type name \"", e[2], "\" - it may be unregistered, or ambiguous">>
      [] e[1] = "UnregisteredTrait" -> <<"#[reflect(", e[3], ")] is missing from '", e[2], "'">>

\* serde's Error::custom(e): an error of the serializer or deserializer that
\* carries the message of e
Custom(e) == <<"custom", Display(e)>>

\* .map_err(Error::custom) on a result that holds a TypeError
MapErrCustom(r) == IF IsErr(r) THEN Err(Custom(r[2])) ELSE r

(***************************************************************************)
(* The values the program builds.                                          *)
(***************************************************************************)
LeafValues ==
    {<<I32, n>> : n \in Nums}
    \cup {<<t, <<n>>>> : t \in {FooS, FooD, Typed}, n \in Nums}
    \cup {<<Bar, <<a, b>>>> : a \in Nums, b \in Nums}

\* the values that can sit in a Box<dyn MyTrait>
Boxable(values) == {v \in values : "MyTrait" \in Impls(TypeId(v))}

RECURSIVE ValuesUpTo(_)
ValuesUpTo(n) ==
    IF n < 1 THEN {}
    ELSE LeafValues
         \cup UNION {{<<Nested, <<a, b>>>> : a \in Boxable(ValuesUpTo(i)),
                                               b \in Boxable(ValuesUpTo(n - 1 - i))} :
                     i \in 1..(n - 2)}

\* the tree of the test serialize_nested: a Nested that holds a number and a
\* Nested, which holds a Foo and a Bar
NestedValue ==
    <<Nested, <<<<I32, MaxNum>>,
                <<Nested, <<<<FooS, <<0 - 1>>>>, <<Bar, <<MaxNum, 0 - 1>>>>>>>>>>>>

Values == ValuesUpTo(MaxNodes) \cup {NestedValue}

(***************************************************************************)
(* Ambient registry: type_registry.rs.  `current` is the thread's          *)
(* CURRENT_TYPE_REGISTRY slot, written as the stack of the registries that *)
(* the enclosing set_current calls installed (the last one is in force,    *)
(* the empty stack is the unset slot).                                     *)
(***************************************************************************)
NoRegistry ==
    <<"Panic", "cannot access a scoped thread local variable without calling set first">>

\* TypeRegistryExt::has_current
HasCurrent(current) == current # <<>>

\* the registry in force: what the innermost set_current installed
Top(stack) == stack[Len(stack)]

\* a variant of with_current that reports an unset slot as a TypeError
WithCurrentOrError(current, result) ==
    IF current = <<>> THEN Err(<<"UnregisteredType", "TypeRegistry">>) ELSE result

\* TypeRegistryExt::with_current: scoped_tls panics when the slot is unset;
\* otherwise the closure runs on the registry in force and `result` is what
\* it returns
WithCurrent(current, result) ==
    IF current = <<>> THEN NoRegistry ELSE result

(***************************************************************************)
(* Encode: serialization/ser.rs.                                           *)
(* `slot` is CURRENTLY_SERIALIZING_TYPE, written as the stack of the       *)
(* values that nested CURRENTLY_SERIALIZING_TYPE.set calls installed (the  *)
(* last one is the one in force).                                          *)
(***************************************************************************)
RECURSIVE serialize(_, _, _)

\* a variant of CurrentType::serialize that writes the name the outermost
\* serialize() installed
CurrentTypeOutermost(slot) == <<"Str", slot[1]>>

\* CurrentType::serialize: the tag is whatever the slot holds right now
CurrentType(slot) == <<"Str", slot[Len(slot)]>>

\* one field of a derived Serialize impl: an i32, or a Box<dyn MyTrait>, whose
\* Serialize impl (impl_dynamic_trait!) calls serialize(self.as_reflect(), ..)
SerializeField(current, slot, kind, x) ==
    IF kind = "i32" THEN Ok(<<"Int", x>>) ELSE serialize(current, slot, x)

\* the fields from position i on, in declaration order, stopping at the first
\* failure
RECURSIVE SerializeFields(_, _, _, _)
SerializeFields(current, slot, this, i) ==
    IF i > Len(Body(this)) THEN Ok(<<>>)
    ELSE LET head == SerializeField(current, slot, FieldKinds(TypeId(this))[i], Body(this)[i])
         IN  IF ~IsOk(head) THEN head
             ELSE LET rest == SerializeFields(current, slot, this, i + 1)
                  IN  IF ~IsOk(rest) THEN rest ELSE Ok(<<head[2]>> \o rest[2])

\* the concrete type's own Serialize impl, reached through
\* ReflectSerialize::get_serializable: a number, a struct or a tuple struct
SerdeSerialize(current, slot, this) ==
    IF Shape(TypeId(this)) = "Value" THEN Ok(<<"Int", Body(this)>>)
    ELSE LET fs == SerializeFields(current, slot, this, 1)
         IN  IF ~IsOk(fs) THEN fs
             ELSE IF Shape(TypeId(this)) = "Struct"
                  THEN Ok(<<"Map", [i \in 1..Len(fs[2]) |->
                                       <<FieldNames(TypeId(this))[i], fs[2][i]>>]>>)
                  ELSE Ok(<<"Seq", fs[2]>>)

\* a variant of that closure which takes the capability for granted once the
\* type is registered
GetReflectSerializeUnchecked(registry, pointer) ==
    IF TypeId(pointer) \notin DOMAIN registry
    THEN Err(<<"UnregisteredType", TypeId(pointer)>>)
    ELSE Ok("ReflectSerialize")

\* the with_current closure of SerializePointerWithTypeTag::serialize
GetReflectSerialize(registry, pointer) ==
    IF TypeId(pointer) \notin DOMAIN registry
    THEN Err(<<"UnregisteredType", TypeId(pointer)>>)
    ELSE IF "Serialize" \notin registry[TypeId(pointer)]
    THEN Err(<<"UnregisteredTrait", TypeId(pointer), "Serialize">>)
    ELSE Ok("ReflectSerialize")

\* SerializePointerWithTypeTag::serialize
SerializePointerWithTypeTag(current, slot, pointer) ==
    LET found == MapErrCustom(WithCurrent(current, GetReflectSerialize(Top(current), pointer)))
    IN  IF ~IsOk(found) THEN found ELSE SerdeSerialize(current, slot, pointer)

\* derived Serialize of SerializeWithTypeTagFlattened: a map that starts with
\* the entry `type`; the flattened value adds its own entries to that map and
\* must itself be a struct or a map
SerializeWithTypeTagFlattened(type_name, value) ==
    IF ~IsOk(value) THEN value
    ELSE IF value[2][1] # "Map"
    THEN Err(<<"custom", <<"can only flatten structs and maps">>>>)
    ELSE Ok(<<"Map", <<<<"type", type_name>>>> \o value[2][2]>>)

\* a variant of SerializeWithTypeTagUnflattened with its two fields declared
\* in the other order
SerializeValueBeforeType(type_name, value) ==
    IF ~IsOk(value) THEN value
    ELSE Ok(<<"Map", <<<<"value", value[2]>>, <<"type", type_name>>>>>>)

\* derived Serialize of SerializeWithTypeTagUnflattened: the fields `type`
\* and `value`
SerializeWithTypeTagUnflattened(type_name, value) ==
    IF ~IsOk(value) THEN value
    ELSE Ok(<<"Map", <<<<"type", type_name>>, <<"value", value[2]>>>>>>)

\* the with_current closure of serialize(): the registration's short name
GetShortName(registry, this) ==
    IF TypeId(this) \notin DOMAIN registry
    THEN Err(<<"UnregisteredType", TypeId(this)>>)
    ELSE Ok(ShortName(TypeId(this)))

\* serialize(): look the type up, install its short name in the slot for the
\* duration of the body, branch on reflect_ref()
serialize(current, slot, this) ==
    LET type_name == MapErrCustom(WithCurrent(current, GetShortName(Top(current), this)))
    IN  IF ~IsOk(type_name) THEN type_name
        ELSE LET inner == Append(slot, type_name[2])
             IN  IF Shape(TypeId(this)) = "Struct"
                 THEN SerializeWithTypeTagFlattened(
                          CurrentType(inner), SerializePointerWithTypeTag(current, inner, this))
                 ELSE SerializeWithTypeTagUnflattened(
                          CurrentType(inner), SerializePointerWithTypeTag(current, inner, this))

(***************************************************************************)
(* Casting engine: dynamic_trait.rs.                                       *)
(* A target P is a trait (one of Traits), "Reflect" (dyn Reflect) or       *)
(* a concrete type id (the blanket impl DynamicTrait for T).               *)
(***************************************************************************)
\* DynamicTrait::reflect_name
ReflectName(P) == P

\* DynamicTrait::get_type_data: the default impl reads the registration's
\* type data; the impls for T and for dyn Reflect ignore the registration
GetTypeData(P, registration, registry) ==
    IF P \in Traits
    THEN IF P \in registry[registration]
         THEN <<"Some", <<"ReflectTrait", P, registration>>>>
         ELSE <<"None">>
    ELSE IF P = "Reflect"
    THEN <<"Some", <<"DynReflectMetadata">>>>
    ELSE <<"Some", <<"SelfTrait", P>>>>

\* a pointer is <<address, static view, pointee>>; the view is "Reflect", a
\* trait or the concrete type id
Addr(pointer) == pointer[1]
View(pointer) == pointer[2]
Pointee(pointer) == pointer[3]

\* pointer.as_any().type_id(): the runtime type of the pointee
RuntimeType(pointer) == TypeId(Pointee(pointer))

\* Reflect::as_reflect / as_reflect_mut, DowncastReflect::downcast_into_reflect:
\* the same pointer, seen as dyn Reflect
AsReflect(pointer) == <<Addr(pointer), "Reflect", Pointee(pointer)>>

\* a variant of get_type_data_for_object that asks the target for its
\* metadata first and looks the registration up only when the target needs it
GetTypeDataWithoutRegistration(P, pointer, registry) ==
    IF P \notin Traits
    THEN Ok(GetTypeData(P, RuntimeType(pointer), registry)[2])
    ELSE IF RuntimeType(pointer) \notin DOMAIN registry
    THEN Err(<<"UnregisteredType", RuntimeType(pointer)>>)
    ELSE LET metadata == GetTypeData(P, RuntimeType(pointer), registry)
         IN  IF metadata[1] = "None"
             THEN Err(<<"UnregisteredTrait", ShortName(RuntimeType(pointer)), ReflectName(P)>>)
             ELSE Ok(metadata[2])

\* DynamicTraitExt::get_type_data_for_object
GetTypeDataForObject(P, pointer, registry) ==
    IF RuntimeType(pointer) \notin DOMAIN registry
    THEN Err(<<"UnregisteredType", RuntimeType(pointer)>>)
    ELSE LET metadata == GetTypeData(P, RuntimeType(pointer), registry)
         IN  IF metadata[1] = "None"
             THEN Err(<<"UnregisteredTrait", ShortName(RuntimeType(pointer)), ReflectName(P)>>)
             ELSE Ok(metadata[2])

\* a variant of from_reflect that moves the object into a new allocation
FromReflectReboxed(metadata, this) ==
    CASE metadata[1] = "SelfTrait" ->
            IF RuntimeType(this) = metadata[2]
            THEN Ok(<<0, metadata[2], Pointee(this)>>)
            ELSE <<"Panic", "type mismatch">>
      [] metadata[1] = "DynReflectMetadata" -> Ok(<<0, "Reflect", Pointee(this)>>)
      [] metadata[1] = "ReflectTrait" ->
            IF RuntimeType(this) = metadata[3]
            THEN Ok(<<0, metadata[2], Pointee(this)>>)
            ELSE <<"Panic", "called Option::unwrap() on a None value">>

\* DynamicCaster::from_reflect: SelfTrait<T> downcasts and expects the type to
\* match; DynReflectMetadata returns the pointer; the type data generated for
\* a trait (impl_dynamic_trait!) unwraps get_boxed, which downcasts to the
\* type the data was registered for
FromReflect(metadata, this) ==
    CASE metadata[1] = "SelfTrait" ->
            IF RuntimeType(this) = metadata[2]
            THEN Ok(<<Addr(this), metadata[2], Pointee(this)>>)
            ELSE <<"Panic", "type mismatch">>
      [] metadata[1] = "DynReflectMetadata" -> Ok(this)
      [] metadata[1] = "ReflectTrait" ->
            IF RuntimeType(this) = metadata[3]
            THEN Ok(<<Addr(this), metadata[2], Pointee(this)>>)
            ELSE <<"Panic", "called Option::unwrap() on a None value">>

\* DynamicCaster::from_reflect_ref
FromReflectRef(metadata, this) ==
    CASE metadata[1] = "SelfTrait" ->
            IF RuntimeType(this) = metadata[2]
            THEN Ok(<<Addr(this), metadata[2], Pointee(this)>>)
            ELSE <<"Panic", "type mismatch">>
      [] metadata[1] = "DynReflectMetadata" -> Ok(this)
      [] metadata[1] = "ReflectTrait" ->
            IF RuntimeType(this) = metadata[3]
            THEN Ok(<<Addr(this), metadata[2], Pointee(this)>>)
            ELSE <<"Panic", "called Option::unwrap() on a None value">>

\* DynamicCaster::from_reflect_mut
FromReflectMut(metadata, this) ==
    CASE metadata[1] = "SelfTrait" ->
            IF RuntimeType(this) = metadata[2]
            THEN Ok(<<Addr(this), metadata[2], Pointee(this)>>)
            ELSE <<"Panic", "type mismatch">>
      [] metadata[1] = "DynReflectMetadata" -> Ok(this)
      [] metadata[1] = "ReflectTrait" ->
            IF RuntimeType(this) = metadata[3]
            THEN Ok(<<Addr(this), metadata[2], Pointee(this)>>)
            ELSE <<"Panic", "called Option::unwrap() on a None value">>

(***************************************************************************)
(* Casting: cast.rs, with the registry passed in.                          *)
(***************************************************************************)
\* CastRef::try_cast_ref_with_registry (for &T and for &mut T)
TryCastRefWithRegistry(P, self, registry) ==
    LET this == AsReflect(self)
        metadata == GetTypeDataForObject(P, this, registry)
    IN  IF ~IsOk(metadata) THEN metadata ELSE FromReflectRef(metadata[2], this)

\* CastMut::try_cast_mut_with_registry
TryCastMutWithRegistry(P, self, registry) ==
    LET this == AsReflect(self)
        metadata == GetTypeDataForObject(P, this, registry)
    IN  IF ~IsOk(metadata) THEN metadata ELSE FromReflectMut(metadata[2], this)

\* a variant of try_cast_box_with_registry without the borrowed cast: the box
\* is converted at once and the lookup unwrapped
TryCastBoxUnvalidated(P, self, registry) ==
    LET this == AsReflect(self)
        metadata == GetTypeDataForObject(P, this, registry)
    IN  IF ~IsOk(metadata)
        THEN <<"Panic", "called Result::unwrap() on an Err value">>
        ELSE FromReflect(metadata[2], this)

\* a variant of try_cast_box_with_registry that hands the box back as a
\* Box<dyn Reflect>
TryCastBoxReturningReflect(P, self, registry) ==
    LET probe == TryCastRefWithRegistry(P, self, registry)
        this == AsReflect(self)
    IN  IF IsErr(probe) THEN <<"Err", probe[2], this>>
        ELSE IF IsPanic(probe) THEN probe
        ELSE LET metadata == GetTypeDataForObject(P, this, registry)
             IN  IF ~IsOk(metadata)
                 THEN <<"Panic", "called Result::unwrap() on an Err value">>
                 ELSE FromReflect(metadata[2], this)

\* CastBox::try_cast_box_with_registry: the borrowed cast first; its error
\* comes back as <<"Err", err, self>>, the pair (self, err) of the source
TryCastBoxWithRegistry(P, self, registry) ==
    LET probe == TryCastRefWithRegistry(P, self, registry)
    IN  IF IsErr(probe) THEN <<"Err", probe[2], self>>
        ELSE IF IsPanic(probe) THEN probe
        ELSE LET this == AsReflect(self)
                 metadata == GetTypeDataForObject(P, this, registry)
             IN  IF ~IsOk(metadata)
                 THEN <<"Panic", "called Result::unwrap() on an Err value">>
                 ELSE FromReflect(metadata[2], this)

\* Cast<P>::try_cast_with_registry for the receivers &T, &mut T and Box<T>:
\* the first two pass the call on; the last one keeps the error of CastBox and
\* lets go of the box, map_err(|(_, err)| err)
TryCastWithRegistry(P, recv, self, registry) ==
    CASE recv = "&T" -> TryCastRefWithRegistry(P, self, registry)
      [] recv = "&mut T" -> TryCastMutWithRegistry(P, self, registry)
      [] recv = "Box<T>" ->
            LET cast == TryCastBoxWithRegistry(P, self, registry)
            IN  IF IsErr(cast) THEN Err(cast[2]) ELSE cast

\* the forms that read the thread's current registry: Cast::try_cast,
\* CastBox::try_cast_box, CastRef::try_cast_ref, CastMut::try_cast_mut
TryCast(P, recv, self, current) ==
    WithCurrent(current, TryCastWithRegistry(P, recv, self, Top(current)))

TryCastBox(P, self, current) ==
    WithCurrent(current, TryCastBoxWithRegistry(P, self, Top(current)))

TryCastRef(P, self, current) ==
    WithCurrent(current, TryCastRefWithRegistry(P, self, Top(current)))

TryCastMut(P, self, current) ==
    WithCurrent(current, TryCastMutWithRegistry(P, self, Top(current)))

(***************************************************************************)
(* Capture: serialization/value.rs, Value and its ValueVisitor.  An input  *)
(* is the tree of visitor calls a deserializer makes for it:               *)
(* <<method, payload>>, the payload of visit_some and visit_newtype_struct *)
(* being an input, that of visit_seq a sequence of inputs and that of      *)
(* visit_map a sequence of <<key input, value input>>.                     *)
(***************************************************************************)
\* visit_bool .. visit_char: the variant that wraps the value unchanged
ScalarVariant(method) ==
    CASE method = "visit_bool" -> "Bool"
      [] method = "visit_i8" -> "I8"
      [] method = "visit_i16" -> "I16"
      [] method = "visit_i32" -> "I32"
      [] method = "visit_i64" -> "I64"
      [] method = "visit_u8" -> "U8"
      [] method = "visit_u16" -> "U16"
      [] method = "visit_u32" -> "U32"
      [] method = "visit_u64" -> "U64"
      [] method = "visit_f32" -> "F32"
      [] method = "visit_f64" -> "F64"
      [] method = "visit_char" -> "Char"

ScalarMethods ==
    {"visit_bool", "visit_i8", "visit_i16", "visit_i32", "visit_i64", "visit_u8",
     "visit_u16", "visit_u32", "visit_u64", "visit_f32", "visit_f64", "visit_char"}

\* visit_str: a transient &str is copied into an owned String
VisitStr(value) == Ok(<<"String", value>>)
\* visit_borrowed_str: a &'de str is kept as it is
VisitBorrowedStr(value) == Ok(<<"Str", value>>)
\* visit_string
VisitString(value) == Ok(<<"String", value>>)
\* visit_bytes: a transient &[u8] is copied into an owned Vec<u8>
VisitBytes(value) == Ok(<<"ByteBuf", value>>)
\* visit_borrowed_bytes
VisitBorrowedBytes(value) == Ok(<<"Bytes", value>>)
\* visit_byte_buf
VisitByteBuf(value) == Ok(<<"ByteBuf", value>>)

\* the first failure among the results of next_element()? / next_entry()?
FirstErr(results) ==
    results[CHOOSE i \in 1..Len(results) :
                IsErr(results[i]) /\ \A j \in 1..(i - 1) : ~IsErr(results[j])]

\* visit_seq, over the results of its next_element() calls
VisitSeq(elements) ==
    IF \E i \in 1..Len(elements) : IsErr(elements[i])
    THEN FirstErr(elements)
    ELSE Ok(<<"Seq", [i \in 1..Len(elements) |-> elements[i][2]]>>)

\* next_entry(): the key, then the value
NextEntry(key, value) ==
    IF IsErr(key) THEN key
    ELSE IF IsErr(value) THEN value
    ELSE Ok(<<key[2], value[2]>>)

\* a map collected by key: of the entries with one key only the last stays
VisitMapKeepingLast(entries) ==
    IF \E i \in 1..Len(entries) : IsErr(entries[i])
    THEN FirstErr(entries)
    ELSE LET kept == SelectSeq([i \in 1..Len(entries) |-> i],
                               LAMBDA i : \A j \in (i + 1)..Len(entries) :
                                              entries[j][2][1] # entries[i][2][1])
         IN  Ok(<<"Map", [n \in 1..Len(kept) |-> entries[kept[n]][2]]>>)

\* visit_map, over the results of its next_entry() calls
VisitMap(entries) ==
    IF \E i \in 1..Len(entries) : IsErr(entries[i])
    THEN FirstErr(entries)
    ELSE Ok(<<"Map", [i \in 1..Len(entries) |-> entries[i][2]]>>)

\* visit_some, visit_newtype_struct: .map(|v| Value::Some(Box::new(v)))
MapBoxed(variant, inner) == IF IsErr(inner) THEN inner ELSE Ok(<<variant, inner[2]>>)

\* Value::deserialize: deserialize_any(ValueVisitor), the input making one
\* visitor call per node
RECURSIVE ValueVisitor(_)
ValueVisitor(input) ==
    LET method == input[1] IN
    CASE method \in ScalarMethods -> Ok(<<ScalarVariant(method), input[2]>>)
      [] method = "visit_str" -> VisitStr(input[2])
      [] method = "visit_borrowed_str" -> VisitBorrowedStr(input[2])
      [] method = "visit_string" -> VisitString(input[2])
      [] method = "visit_bytes" -> VisitBytes(input[2])
      [] method = "visit_borrowed_bytes" -> VisitBorrowedBytes(input[2])
      [] method = "visit_byte_buf" -> VisitByteBuf(input[2])
      [] method = "visit_unit" -> Ok(<<"Unit">>)
      [] method = "visit_none" -> Ok(<<"None">>)
      [] method = "visit_some" -> MapBoxed("Some", ValueVisitor(input[2]))
      [] method = "visit_newtype_struct" -> MapBoxed("Newtype", ValueVisitor(input[2]))
      [] method = "visit_seq" ->
            VisitSeq([i \in 1..Len(input[2]) |-> ValueVisitor(input[2][i])])
      [] method = "visit_map" ->
            VisitMap([i \in 1..Len(input[2]) |->
                         NextEntry(ValueVisitor(input[2][i][1]),
                                   ValueVisitor(input[2][i][2]))])
      [] method = "visit_enum" ->
            Err(<<"custom", <<"untagged and internally tagged enums do not support enum input">>>>)

\* the visitor calls of the wire format for a document: a number that is not
\* negative arrives as visit_u64, a negative one as visit_i64, a string as
\* visit_borrowed_str, arrays and objects as visit_seq / visit_map
RECURSIVE Feed(_)
Feed(w) ==
    CASE w[1] = "Int" -> IF w[2] >= 0 THEN <<"visit_u64", w[2]>> ELSE <<"visit_i64", w[2]>>
      [] w[1] = "Str" -> <<"visit_borrowed_str", w[2]>>
      [] w[1] = "Seq" -> <<"visit_seq", [i \in 1..Len(w[2]) |-> Feed(w[2][i])]>>
      [] w[1] = "Map" -> <<"visit_map", [i \in 1..Len(w[2]) |->
                              <<<<"visit_borrowed_str", w[2][i][1]>>, Feed(w[2][i][2])>>]>>

(***************************************************************************)
(* Decode: serialization/de.rs, over a captured Value (value.rs).          *)
(***************************************************************************)
\* Value::deserialize on a document of the wire format, which holds no enum
Capture(w) == ValueVisitor(Feed(w))[2]

IntegerVariants == {"U8", "U16", "U32", "U64", "I8", "I16", "I32", "I64"}
StringVariants == {"String", "Str"}

\* ValueDeserializer::deserialize_integer, driven by i32's visitor, which
\* accepts every width and checks the range
DeserializeI32(value) ==
    IF value[1] \in IntegerVariants
    THEN IF value[2] >= (0 - 2147483647) - 1 /\ value[2] <= 2147483647
         THEN Ok(value[2])
         ELSE Err(<<"invalid value", "expected i32">>)
    ELSE Err(<<"invalid type", "expected i32">>)

\* HashMap::insert: the later entry of a key replaces the earlier one
Insert(value_map, k, v) ==
    [x \in DOMAIN value_map \cup {k} |-> IF x = k THEN v ELSE value_map[x]]

EmptyMap == [x \in {} |-> <<"Unit">>]

\* derived Deserialize of DeserializeWithTypeTag (a struct with a renamed
\* field `type` and a flattened HashMap): the entries from position i on.
\* The first `type` entry must be a string; a second one is a duplicate field;
\* every other entry is buffered and ends up in value_map.
RECURSIVE ReadEnvelope(_, _, _, _)
ReadEnvelope(entries, i, type_name, value_map) ==
    IF i > Len(entries)
    THEN IF type_name = <<>>
         THEN Err(<<"missing field", "type">>)
         ELSE Ok(<<type_name[1], value_map>>)
    ELSE LET key == entries[i][1]
             value == entries[i][2]
         IN  IF key[1] \notin StringVariants
             THEN Err(<<"invalid type", "expected a string key">>)
             ELSE IF key[2] = "type"
             THEN IF type_name # <<>>
                  THEN Err(<<"duplicate field", "type">>)
                  ELSE IF value[1] \notin StringVariants
                  THEN Err(<<"invalid type", "expected a string">>)
                  ELSE ReadEnvelope(entries, i + 1, <<value[2]>>, value_map)
             ELSE ReadEnvelope(entries, i + 1, type_name, Insert(value_map, key[2], value))

\* a variant of DeserializeWithTypeTag whose field `type` defaults to the
\* empty string when the input has none
DeserializeWithDefaultTag(input) ==
    IF input[1] # "Map"
    THEN Err(<<"invalid type", "expected struct DeserializeWithTypeTag">>)
    ELSE IF \A i \in 1..Len(input[2]) : input[2][i][1] # <<"Str", "type">>
    THEN ReadEnvelope(input[2], 1, <<"">>, EmptyMap)
    ELSE ReadEnvelope(input[2], 1, <<>>, EmptyMap)

\* DeserializeWithTypeTag::deserialize: deserialize_map on the input
DeserializeWithTypeTag(input) ==
    IF input[1] # "Map"
    THEN Err(<<"invalid type", "expected struct DeserializeWithTypeTag">>)
    ELSE ReadEnvelope(input[2], 1, <<>>, EmptyMap)

\* a variant of get_with_short_name that settles for any registration
\* carrying the short name
GetAnyWithShortName(registry, short_name) ==
    LET found == {t \in DOMAIN registry : ShortName(t) = short_name}
    IN  IF found # {}
        THEN <<"Some", CHOOSE t \in found : TRUE>>
        ELSE <<"None">>

\* TypeRegistry::get_with_short_name: the registration that alone carries the
\* short name; none when the name is unknown or ambiguous
GetWithShortName(registry, short_name) ==
    LET found == {t \in DOMAIN registry : ShortName(t) = short_name}
    IN  IF Cardinality(found) = 1
        THEN <<"Some", CHOOSE t \in found : TRUE>>
        ELSE <<"None">>

\* the with_current closure of deserialize(): short name first, then the
\* ReflectDeserialize type data
ResolveRegistration(registry, type_name) ==
    LET registration == GetWithShortName(registry, type_name)
    IN  IF registration[1] = "None"
        THEN Err(<<"UnregisteredShortName", type_name>>)
        ELSE IF "Deserialize" \notin registry[registration[2]]
        THEN Err(<<"UnregisteredTrait", registration[2], "Deserialize">>)
        ELSE Ok(registration[2])

\* a variant of the match on type_info that replays an empty sequence when
\* the entry `value` is missing
SelectReplayOrEmpty(type_info, value_map) ==
    IF type_info = "Struct"
    THEN <<"Fields", value_map>>
    ELSE IF "value" \in DOMAIN value_map
    THEN <<"Value", value_map["value"]>>
    ELSE <<"Value", <<"Seq", <<>>>>>>

\* the match on type_info of deserialize(): what is replayed into the
\* concrete type's decoder -- the whole value_map for a struct, the entry
\* `value` for every other shape, nothing when that entry is missing
SelectReplay(type_info, value_map) ==
    IF type_info = "Struct"
    THEN <<"Fields", value_map>>
    ELSE IF "value" \in DOMAIN value_map
    THEN <<"Value", value_map["value"]>>
    ELSE <<"Missing">>

RECURSIVE deserialize(_, _)

\* a Box the decoder has just allocated; the model does not track its address
FreshBox(this) == <<0, "Reflect", this>>

\* a variant of the second step that hands on the Box<dyn Reflect> as it is
BoxDynUncast(current, box_dyn_reflect) ==
    IF ~IsOk(box_dyn_reflect) THEN box_dyn_reflect
    ELSE Ok(FreshBox(box_dyn_reflect[2]))

\* Deserialize for Box<dyn MyTrait> (impl_dynamic_trait!), second step: the
\* error of deserialize() is passed on by `?`; its Box<dyn Reflect> goes to
\* Cast::try_cast, whose TypeError becomes a custom error of the decoder
BoxDynCast(current, box_dyn_reflect) ==
    IF ~IsOk(box_dyn_reflect) THEN box_dyn_reflect
    ELSE MapErrCustom(TryCast("MyTrait", "Box<T>", FreshBox(box_dyn_reflect[2]), current))

\* Deserialize for Box<dyn MyTrait> (impl_dynamic_trait!): deserialize(), then
\* the cast; the outcomes, a decoded Box<dyn MyTrait> being written as the
\* object it points to
BoxDynDeserialize(current, value) ==
    {LET cast == BoxDynCast(current, o[1])
     IN  IF IsOk(cast) THEN Ok(Pointee(cast[2])) ELSE cast :
     o \in deserialize(current, value)}

\* one field of a derived Deserialize impl, read from a ValueDeserializer
FieldOutcomes(current, kind, value) ==
    IF kind = "i32" THEN {DeserializeI32(value)} ELSE BoxDynDeserialize(current, value)

\* derived Deserialize of a struct (visit_map) over value_map.into_deserializer():
\* the entries arrive in the HashMap's order, which is arbitrary, and the first
\* field that fails ends the decode; unknown keys are skipped; a field that
\* never arrived is reported after the last entry
StructOutcomes(current, t, value_map) ==
    LET names == FieldNames(t)
        present == {i \in 1..Len(names) : names[i] \in DOMAIN value_map}
        missing == (1..Len(names)) \ present
        outs == [i \in present |->
                    FieldOutcomes(current, FieldKinds(t)[i], value_map[names[i]])]
        all == UNION {outs[i] : i \in present}
        choices == {c \in [present -> all] : \A i \in present : c[i] \in outs[i]}
        Result(c) ==
            IF \E i \in present : ~IsOk(c[i])
            THEN {c[i] : i \in {j \in present : ~IsOk(c[j])}}
            ELSE IF missing # {}
            THEN {Err(<<"missing field", names[CHOOSE i \in missing : \A j \in missing : i <= j]>>)}
            ELSE {Ok(<<t, [i \in 1..Len(names) |-> c[i][2]]>>)}
    IN  UNION {Result(c) : c \in choices}

\* derived Deserialize of a tuple struct (visit_seq) over visit_value_seq: the
\* elements from position i on, in order; too few elements fail in visit_seq,
\* left-over elements fail in SeqDeserializer::end
RECURSIVE ReadSeq(_, _, _, _)
ReadSeq(current, t, elements, i) ==
    IF i > Len(FieldKinds(t))
    THEN IF Len(elements) > Len(FieldKinds(t))
         THEN {Err(<<"invalid length", "elements in sequence">>)}
         ELSE {Ok(<<>>)}
    ELSE IF i > Len(elements)
    THEN {Err(<<"invalid length", "expected tuple struct">>)}
    ELSE UNION {IF ~IsOk(head) THEN {head}
                ELSE {IF ~IsOk(rest) THEN rest ELSE Ok(<<head[2]>> \o rest[2]) :
                      rest \in ReadSeq(current, t, elements, i + 1)} :
                head \in FieldOutcomes(current, FieldKinds(t)[i], elements[i])}

\* ValueDeserializer::deserialize_tuple_struct -> deserialize_seq
TupleStructOutcomes(current, t, value) ==
    IF value[1] # "Seq"
    THEN {Err(<<"invalid type", "expected tuple struct">>)}
    ELSE {IF IsOk(r) THEN Ok(<<t, r[2]>>) ELSE r : r \in ReadSeq(current, t, value[2], 1)}

\* ReflectDeserialize::deserialize: the concrete type's Deserialize impl,
\* boxed as dyn Reflect
ReflectDeserialize(current, t, replay) ==
    CASE Shape(t) = "Struct" -> StructOutcomes(current, t, replay[2])
      [] Shape(t) = "TupleStruct" -> TupleStructOutcomes(current, t, replay[2])
      [] Shape(t) = "Value" ->
            {LET r == DeserializeI32(replay[2]) IN IF IsOk(r) THEN Ok(<<t, r[2]>>) ELSE r}

\* deserialize(): the set of <<result, replay>> it can end with, where replay
\* is what was handed to the concrete type's decoder (<<"None">> when the
\* decoder was not called)
deserialize(current, input) ==
    LET tagged == DeserializeWithTypeTag(input)
    IN  IF ~IsOk(tagged) THEN {<<tagged, <<"None">>>>}
        ELSE LET type_name == tagged[2][1]
                 value_map == tagged[2][2]
                 resolved == MapErrCustom(WithCurrent(current,
                                 ResolveRegistration(Top(current), type_name)))
             IN  IF ~IsOk(resolved) THEN {<<resolved, <<"None">>>>}
                 ELSE LET replay == SelectReplay(Shape(resolved[2]), value_map)
                      IN  IF replay[1] = "Missing"
                          THEN {<<Err(<<"custom", <<"expected field value">>>>), <<"None">>>>}
                          ELSE {<<o, replay>> :
                                o \in ReflectDeserialize(current, resolved[2], replay)}

(***************************************************************************)
(* Input documents for deserialize(): the envelopes of the leaf values,    *)
(* and those envelopes with an entry removed, the tag replaced or an entry *)
(* added, and two inputs that are not maps.                                *)
(***************************************************************************)
\* a registry in which every type can be encoded
EveryType == [t \in TypeIds |-> {"Serialize"}]
Envelope(v) == serialize(<<EveryType>>, <<>>, v)[2]

Without(doc, i) ==
    <<"Map", [j \in 1..(Len(doc[2]) - 1) |-> IF j < i THEN doc[2][j] ELSE doc[2][j + 1]]>>
Retagged(doc, tag) ==
    <<"Map", [j \in 1..Len(doc[2]) |-> IF j = 1 THEN <<"type", tag>> ELSE doc[2][j]]>>
WithEntry(doc, entry) == <<"Map", Append(doc[2], entry)>>

Tags == {<<"Str", ShortName(t)>> : t \in TypeIds} \cup {<<"Str", "Unknown">>, <<"Int", 0>>}
ExtraEntries == {<<"value", <<"Int", 0>>>>, <<"extra", <<"Int", 0>>>>, <<"type", <<"Str", "i32">>>>}

Docs ==
    LET base == {Envelope(v) : v \in LeafValues}
    IN  base
        \cup {Without(d, i) : d \in base, i \in 1..2}
        \cup {Retagged(d, tag) : d \in base, tag \in Tags}
        \cup {WithEntry(d, e) : d \in base, e \in ExtraEntries}
        \cup {<<"Int", 0>>, <<"Seq", <<>>>>}

(***************************************************************************)
(* State.                                                                  *)
(***************************************************************************)
VARIABLES
    \* the TypeRegistry the program builds: registered type id -> type data
    registry,
    \* CURRENT_TYPE_REGISTRY of the thread: the registries installed by the
    \* enclosing set_current calls, innermost last
    current,
    \* the Box the program holds: <<"None">> or <<"Some", pointer>>
    box,
    \* the allocations that are live: address -> the object stored there
    heap,
    \* the call in progress and its outcome; [op |-> "idle"] between calls
    call,
    \* the thread-local Cells behind the two scoped keys, for every thread of
    \* the program: <<>> for the null pointer, <<x>> for a pointer to x
    cells,
    \* for every thread, the ScopedKey::set calls that are on its call stack,
    \* innermost last
    frames

vars == <<registry, current, box, heap, call, cells, frames>>

Idle == [op |-> "idle"]

\* the threads, and the two scoped thread-local keys of the crate
Threads == 1..MaxThreads
CURRENT_TYPE_REGISTRY == "CURRENT_TYPE_REGISTRY"
CURRENTLY_SERIALIZING_TYPE == "CURRENTLY_SERIALIZING_TYPE"
Keys == {CURRENT_TYPE_REGISTRY, CURRENTLY_SERIALIZING_TYPE}

\* TypeRegistry::default() registers the primitives
Init ==
    /\ registry = [t \in {I32} |-> DeclaredData(t)]
    /\ current = <<>>
    /\ box = <<"None">>
    /\ heap = [a \in {} |-> <<>>]
    /\ call = Idle
    /\ cells = [th \in Threads |-> [key \in Keys |-> <<>>]]
    /\ frames = [th \in Threads |-> <<>>]

\* TypeRegistry::register::<T>(): a registration with the type data that
\* #[reflect(..)] names
Register(t) ==
    /\ call = Idle
    /\ current = <<>>
    /\ t \notin DOMAIN registry
    /\ registry' = [x \in DOMAIN registry \cup {t} |->
                       IF x = t THEN DeclaredData(t) ELSE registry[x]]
    /\ UNCHANGED <<current, box, heap, call, cells, frames>>

\* TypeRegistry::register_type_data::<T, D>(), for a T that implements the
\* trait of D (the tests add ReflectMyTrait to i32)
RegisterTypeData(t, d) ==
    /\ call = Idle
    /\ current = <<>>
    /\ t \in DOMAIN registry
    /\ d \in Impls(t) \ registry[t]
    /\ registry' = [registry EXCEPT ![t] = @ \cup {d}]
    /\ UNCHANGED <<current, box, heap, call, cells, frames>>

\* TypeRegistryExt::set_current: the closure starts with the registry installed
SetCurrent ==
    /\ call = Idle
    /\ Len(current) < MaxScopes
    /\ current' = Append(current, registry)
    /\ UNCHANGED <<registry, box, heap, call, cells, frames>>

\* the closure of set_current returns: the slot is what it was before
ExitScope ==
    /\ call = Idle
    /\ current # <<>>
    /\ current' = SubSeq(current, 1, Len(current) - 1)
    /\ UNCHANGED <<registry, box, heap, call, cells, frames>>

\* serialize(this, serializer)
CallSerialize(v) ==
    /\ call = Idle
    /\ call' = [op |-> "serialize", arg |-> v, res |-> serialize(current, <<>>, v)]
    /\ UNCHANGED <<registry, current, box, heap, cells, frames>>

\* deserialize(deserializer) on an input document
CallDeserialize(doc) ==
    /\ call = Idle
    /\ \E out \in deserialize(current, Capture(doc)) :
          call' = [op |-> "deserialize", arg |-> doc, of |-> <<"None">>,
                   res |-> out[1], replay |-> out[2]]
    /\ UNCHANGED <<registry, current, box, heap, cells, frames>>

\* deserialize(deserializer) on what serialize has just produced
DeserializeOutput ==
    /\ call.op = "serialize"
    /\ IsOk(call.res)
    /\ \E out \in deserialize(current, Capture(call.res[2])) :
          call' = [op |-> "deserialize", arg |-> call.res[2], of |-> <<"Some", call.arg>>,
                   res |-> out[1], replay |-> out[2]]
    /\ UNCHANGED <<registry, current, box, heap, cells, frames>>

\* serialize(this, serializer) on the value that deserialize has just made of
\* the output of an earlier serialize; `first` is that earlier output
SerializeDecoded ==
    /\ call.op = "deserialize"
    /\ call.of[1] = "Some"
    /\ IsOk(call.res)
    /\ call' = [op |-> "reserialize", arg |-> call.res[2], first |-> call.arg,
                res |-> serialize(current, <<>>, call.res[2])]
    /\ UNCHANGED <<registry, current, box, heap, cells, frames>>

\* Box::<dyn MyTrait>::deserialize(deserializer) on an input document: `raw`
\* is what deserialize() returned, `res` what the caller gets
CallDeserializeBox(doc) ==
    /\ call = Idle
    /\ \E out \in deserialize(current, Capture(doc)) :
          call' = [op |-> "deserialize_box", arg |-> doc, raw |-> out[1],
                   res |-> BoxDynCast(current, out[1])]
    /\ UNCHANGED <<registry, current, box, heap, cells, frames>>

\* the call returns to the program; a panic unwinds to wherever it is caught,
\* leaving the scopes it passes through
Return(k) ==
    /\ call # Idle
    /\ k \in 0..Len(current)
    /\ IsPanic(call.res) \/ k = Len(current)
    /\ current' = SubSeq(current, 1, k)
    /\ call' = Idle
    /\ UNCHANGED <<registry, box, heap, cells, frames>>

(***************************************************************************)
(* The casting calls of a client that holds one Box.                       *)
(***************************************************************************)
\* the objects the client boxes
Boxed == {v \in LeafValues : TypeId(v) \in {FooD, FooS, I32}}

\* the targets P of a cast: the traits, dyn Reflect and the concrete types
Targets == Traits \cup {"Reflect", FooD, FooS, I32}

\* Box::new(v)
BoxNew(a, v) ==
    /\ call = Idle
    /\ box = <<"None">>
    /\ a \notin DOMAIN heap
    /\ heap' = [x \in DOMAIN heap \cup {a} |-> IF x = a THEN v ELSE heap[x]]
    /\ box' = <<"Some", <<a, TypeId(v), v>>>>
    /\ UNCHANGED <<registry, current, call, cells, frames>>

\* the heap without the allocation of a pointer
Freed(pointer) == [x \in DOMAIN heap \ {Addr(pointer)} |-> heap[x]]

\* drop(box)
DropBox ==
    /\ call = Idle
    /\ box[1] = "Some"
    /\ heap' = Freed(box[2])
    /\ box' = <<"None">>
    /\ UNCHANGED <<registry, current, call, cells, frames>>

\* the result of a cast call in its two forms: with the registry passed in
\* (the one the program has built), or through the thread's current registry
CastResult(op, recv, form, P, self) ==
    IF form = "with_registry"
    THEN CASE op = "try_cast_ref" -> TryCastRefWithRegistry(P, self, registry)
           [] op = "try_cast_mut" -> TryCastMutWithRegistry(P, self, registry)
           [] op = "try_cast_box" -> TryCastBoxWithRegistry(P, self, registry)
           [] op = "try_cast" -> TryCastWithRegistry(P, recv, self, registry)
    ELSE CASE op = "try_cast_ref" -> TryCastRef(P, self, current)
           [] op = "try_cast_mut" -> TryCastMut(P, self, current)
           [] op = "try_cast_box" -> TryCastBox(P, self, current)
           [] op = "try_cast" -> TryCast(P, recv, self, current)

\* a cast of a borrow of the box: the box stays with the caller
Borrowed(op, recv, form, P) ==
    /\ call = Idle
    /\ box[1] = "Some"
    /\ call' = [op |-> op, recv |-> recv, form |-> form, target |-> P, self |-> box[2],
                res |-> CastResult(op, recv, form, P, box[2])]
    /\ UNCHANGED <<registry, current, box, heap, cells, frames>>

\* a cast that takes the box: afterwards the caller holds the Box<P> of an Ok,
\* or the box that came back inside the Err of CastBox; otherwise the box has
\* been dropped (by map_err in Cast, by the unwinding of a panic)
Owned(op, form, P) ==
    /\ call = Idle
    /\ box[1] = "Some"
    /\ LET res == CastResult(op, "Box<T>", form, P, box[2])
       IN  /\ call' = [op |-> op, recv |-> "Box<T>", form |-> form, target |-> P,
                       self |-> box[2], res |-> res]
           /\ IF IsOk(res) THEN box' = <<"Some", res[2]>> /\ heap' = heap
              ELSE IF IsErr(res) /\ Len(res) = 3
              THEN box' = <<"Some", res[3]>> /\ heap' = heap
              ELSE box' = <<"None">> /\ heap' = Freed(box[2])
    /\ UNCHANGED <<registry, current, cells, frames>>

Forms == {"with_registry", "current"}

\* CastRef::try_cast_ref_with_registry / try_cast_ref, for &T and &mut T
CallTryCastRef(P, recv, form) == Borrowed("try_cast_ref", recv, form, P)

\* CastMut::try_cast_mut_with_registry / try_cast_mut
CallTryCastMut(P, form) == Borrowed("try_cast_mut", "&mut T", form, P)

\* CastBox::try_cast_box_with_registry / try_cast_box
CallTryCastBox(P, form) == Owned("try_cast_box", form, P)

\* Cast::try_cast_with_registry / try_cast on a reference
CallTryCastBorrowed(P, recv, form) == Borrowed("try_cast", recv, form, P)

\* Cast::try_cast_with_registry / try_cast on a Box
CallTryCastOwned(P, form) == Owned("try_cast", form, P)

Next ==
    \/ \E t \in TypeIds : Register(t)
    \/ \E t \in TypeIds, d \in Traits : RegisterTypeData(t, d)
    \/ SetCurrent
    \/ ExitScope
    \/ \E v \in Values : CallSerialize(v)
    \/ \E doc \in Docs : CallDeserialize(doc)
    \/ \E doc \in Docs : CallDeserializeBox(doc)
    \/ DeserializeOutput
    \/ SerializeDecoded
    \/ \E k \in 0..MaxScopes : Return(k)

\* the codec
Spec == Init /\ [][Next]_vars

NextCast ==
    \/ \E t \in {FooD, FooS} : Register(t)
    \/ \E t \in {FooD, FooS, I32}, d \in Traits : RegisterTypeData(t, d)
    \/ SetCurrent
    \/ ExitScope
    \/ \E a \in 1..MaxAddr, v \in Boxed : BoxNew(a, v)
    \/ DropBox
    \/ \E P \in Targets, recv \in {"&T", "&mut T"}, form \in Forms : CallTryCastRef(P, recv, form)
    \/ \E P \in Targets, form \in Forms : CallTryCastMut(P, form)
    \/ \E P \in Targets, form \in Forms : CallTryCastBox(P, form)
    \/ \E P \in Targets, recv \in {"&T", "&mut T"}, form \in Forms : CallTryCastBorrowed(P, recv, form)
    \/ \E P \in Targets, form \in Forms : CallTryCastOwned(P, form)
    \/ \E v \in Boxed : CallSerialize(v)
    \/ \E k \in 0..MaxScopes : Return(k)

\* the casting engine
SpecCast == Init /\ [][NextCast]_vars

(***************************************************************************)
(* The two scoped thread-local keys, for a program of several threads:     *)
(* scoped_thread_local! of type_registry.rs and ser.rs.  A key owns one    *)
(* Cell per thread; ScopedKey::set stores the pointer it is given in the   *)
(* calling thread's Cell, keeps the pointer that was there in a guard on   *)
(* its own stack frame, runs the closure, and the guard's drop (on return  *)
(* and on unwinding alike) writes the kept pointer back.  ScopedKey::with  *)
(* and ScopedKey::is_set read the calling thread's Cell.                   *)
(***************************************************************************)
\* the registries the threads install: TypeRegistry::default(), and the
\* registry of the test serialize_nested
DefaultRegistry == [t \in {I32} |-> DeclaredData(t)]
TestRegistry == [t \in {I32, FooS, Bar, Nested} |-> DeclaredData(t) \cup Impls(t)]
Registries == {DefaultRegistry, TestRegistry}

\* the values the threads encode: the numbers, and the tree of the test
\* serialize_nested
Encoded == {<<I32, n>> : n \in Nums} \cup {NestedValue}

\* a variant of the storage of a key: one Cell for the whole process
StaticKey(th) == 1

\* thread_local!: the storage of a key that belongs to a thread
LocalKey(th) == th

\* the Cell a thread reaches through a key
Cell(th, key) == cells[LocalKey(th)][key]

\* the frames of a call stack that hold a scope of the key
ScopesOf(fs, key) == SelectSeq(fs, LAMBDA f : f.key = key)

\* ScopedKey::set up to the call of the closure, called by set_current or
\* serialize with the argument `this`: the pointer t goes into the Cell, the
\* guard keeps the pointer val that was there
ScopedSet(th, key, this, t) ==
    /\ cells' = [cells EXCEPT ![LocalKey(th)][key] = <<t>>]
    /\ frames' = [frames EXCEPT ![th] =
                     Append(@, [key |-> key, this |-> this, t |-> t, val |-> Cell(th, key)])]
    /\ UNCHANGED <<registry, current, box, heap>>

\* registry.set_current(f) on a thread, up to the call of f; the Serialize
\* impls of the client's types do not call it
SetCurrentOn(th, r) ==
    /\ Len(ScopesOf(frames[th], CURRENT_TYPE_REGISTRY)) < MaxScopes
    /\ ScopesOf(frames[th], CURRENTLY_SERIALIZING_TYPE) = <<>>
    /\ ScopedSet(th, CURRENT_TYPE_REGISTRY, r, r)
    /\ call' = [op |-> "set_current", thread |-> th]

\* the values a thread may hand to serialize(): any value when no encode is
\* running on the thread, otherwise the Box<dyn MyTrait> fields of the value
\* whose fields are being written
Serializable(th) ==
    LET running == ScopesOf(frames[th], CURRENTLY_SERIALIZING_TYPE)
    IN  IF running = <<>> THEN Encoded
        ELSE LET outer == running[Len(running)].this
             IN  {Body(outer)[i] : i \in {j \in 1..Len(FieldKinds(TypeId(outer))) :
                                             FieldKinds(TypeId(outer))[j] = "dyn"}}

\* serialize(this, ..) on a thread, up to the closure of
\* CURRENTLY_SERIALIZING_TYPE.set: with_current has found the registration
\* and its short name is installed
EnterSerialize(th, this) ==
    /\ HasCurrent(Cell(th, CURRENT_TYPE_REGISTRY))
    /\ this \in Serializable(th)
    /\ LET type_name == GetShortName(Top(Cell(th, CURRENT_TYPE_REGISTRY)), this)
       IN  /\ IsOk(type_name)
           /\ ScopedSet(th, CURRENTLY_SERIALIZING_TYPE, this, type_name[2])
    /\ call' = [op |-> "serialize", thread |-> th]

\* a variant of the guard's drop that clears the Cell
DropToNull(cs, th, frame) == [cs EXCEPT ![LocalKey(th)][frame.key] = <<>>]

\* Reset::drop of ScopedKey::set: the Cell gets back the pointer the guard kept
Drop(cs, th, frame) == [cs EXCEPT ![LocalKey(th)][frame.key] = frame.val]

\* the guards of the frames above depth k are dropped, innermost first
RECURSIVE DropFrames(_, _, _, _)
DropFrames(cs, th, fs, k) ==
    IF Len(fs) <= k THEN cs
    ELSE DropFrames(Drop(cs, th, fs[Len(fs)]), th, SubSeq(fs, 1, Len(fs) - 1), k)

\* a thread leaves its innermost scope because the closure returns, or leaves
\* the scopes above depth k because a panic in the closure unwinds that far
ScopeExit(th, how, k) ==
    /\ k < Len(frames[th])
    /\ how = "return" => k = Len(frames[th]) - 1
    /\ cells' = DropFrames(cells, th, frames[th], k)
    /\ frames' = [frames EXCEPT ![th] = SubSeq(@, 1, k)]
    /\ call' = [op |-> how, thread |-> th]
    /\ UNCHANGED <<registry, current, box, heap>>

\* TypeRegistry::has_current() on a thread
CallHasCurrent(th) ==
    /\ call' = [op |-> "has_current", thread |-> th,
                res |-> HasCurrent(Cell(th, CURRENT_TYPE_REGISTRY))]
    /\ UNCHANGED <<registry, current, box, heap, cells, frames>>

\* TypeRegistry::with_current(|registry| ..) on a thread: the registry the
\* closure is handed, or the panic of ScopedKey::with
CallWithCurrent(th) ==
    /\ call' = [op |-> "with_current", thread |-> th,
                res |-> WithCurrent(Cell(th, CURRENT_TYPE_REGISTRY),
                                    Ok(Top(Cell(th, CURRENT_TYPE_REGISTRY))))]
    /\ UNCHANGED <<registry, current, box, heap, cells, frames>>

\* CurrentType::serialize on a thread: CURRENTLY_SERIALIZING_TYPE.with hands
\* the name in the Cell to serialize_str
CallCurrentType(th) ==
    /\ call' = [op |-> "CurrentType", thread |-> th,
                res |-> WithCurrent(Cell(th, CURRENTLY_SERIALIZING_TYPE),
                                    Ok(CurrentType(Cell(th, CURRENTLY_SERIALIZING_TYPE))))]
    /\ UNCHANGED <<registry, current, box, heap, cells, frames>>

\* the thread that main() runs on
MainThread == 1

\* every value that serialize() is called on while v is encoded
RECURSIVE Subtrees(_)
Subtrees(v) ==
    {v} \cup (IF TypeId(v) = Nested
              THEN Subtrees(Body(v)[1]) \cup Subtrees(Body(v)[2])
              ELSE {})

NextAmbient ==
    \/ \E r \in Registries : SetCurrentOn(MainThread, r)
    \/ \E v \in Encoded : \E this \in Subtrees(v) : EnterSerialize(MainThread, this)
    \/ \E how \in {"return", "unwind"}, k \in 0..(MaxScopes + MaxNodes) :
          ScopeExit(MainThread, how, k)
    \/ CallHasCurrent(MainThread)
    \/ CallWithCurrent(MainThread)
    \/ CallCurrentType(MainThread)

\* the ambient slots of one thread
SpecAmbient == Init /\ [][NextAmbient]_vars

NextThreads ==
    \/ \E th \in Threads, r \in Registries : SetCurrentOn(th, r)
    \/ \E th \in Threads : EnterSerialize(th, <<I32, MaxNum>>)
    \/ \E th \in Threads, how \in {"return", "unwind"}, k \in 0..MaxScopes :
          ScopeExit(th, how, k)
    \/ \E th \in Threads : CallHasCurrent(th)
    \/ \E th \in Threads : CallWithCurrent(th)
    \/ \E th \in Threads : CallCurrentType(th)

\* the ambient slots of a program of several threads
SpecThreads == Init /\ [][NextThreads]_vars

(***************************************************************************)
(* Capturing inputs of any shape: Value::deserialize, value.rs:74-84.      *)
(***************************************************************************)
\* the visitor calls that carry no other input: numbers of the width of the
\* call, the strings "a" and "b", one byte string
Leaves ==
    LET unsigned == {"visit_u8", "visit_u16", "visit_u32", "visit_u64"}
        strs == {"visit_str", "visit_borrowed_str", "visit_string"}
        bytes == {"visit_bytes", "visit_borrowed_bytes", "visit_byte_buf"}
    IN  {<<"visit_bool", b>> : b \in BOOLEAN} \cup {<<"visit_char", "a">>}
        \cup {<<m, n>> : m \in ScalarMethods \ (unsigned \cup {"visit_bool", "visit_char"}),
                        n \in Nums}
        \cup {<<m, n>> : m \in unsigned, n \in 0..MaxNum}
        \cup {<<"visit_u8", 255>>, <<"visit_i8", 0 - 128>>, <<"visit_u16", 65535>>,
              <<"visit_i16", 0 - 32768>>, <<"visit_i32", 2147483647>>}
        \cup {<<m, s>> : m \in strs, s \in {"a", "b"}}
        \cup {<<m, <<MaxNum>>>> : m \in bytes}
        \cup {<<"visit_unit">>, <<"visit_none">>, <<"visit_enum">>}

\* every sequence of at most n members of S
RECURSIVE SeqsUpTo(_, _)
SeqsUpTo(S, n) ==
    IF n = 0 THEN {<<>>}
    ELSE SeqsUpTo(S, n - 1) \cup {Append(s, x) : s \in SeqsUpTo(S, n - 1), x \in S}

\* inputs whose composites nest at most d deep
RECURSIVE InputsUpTo(_)
InputsUpTo(d) ==
    IF d = 0 THEN Leaves
    ELSE LET inner == InputsUpTo(d - 1)
             transient == <<"visit_str", "a">>
             borrowed == <<"visit_borrowed_str", "a">>
             items == {<<"visit_u64", MaxNum>>, transient, borrowed}
             keys == {transient, borrowed, <<"visit_borrowed_str", "b">>}
             values == {<<"visit_u64", MaxNum>>, <<"visit_i64", 0 - 1>>}
         IN  inner
             \cup {<<"visit_some", x>> : x \in inner}
             \cup {<<"visit_newtype_struct", x>> : x \in inner}
             \cup {<<"visit_seq", <<x>>>> : x \in inner}
             \cup {<<"visit_map", <<<<transient, x>>>>>> : x \in inner}
             \cup {<<"visit_map", <<<<x, <<"visit_unit">>>>>>>> : x \in inner}
             \cup {<<"visit_seq", s>> : s \in SeqsUpTo(items, MaxItems)}
             \cup {<<"visit_map", s>> : s \in SeqsUpTo(keys \X values, MaxItems)}

Inputs == InputsUpTo(MaxDepth)

\* Value::deserialize(input)
CallCapture(input) ==
    /\ call = Idle
    /\ call' = [op |-> "capture", arg |-> input, res |-> ValueVisitor(input)]
    /\ UNCHANGED <<registry, current, box, heap, cells, frames>>

NextCapture ==
    \/ \E input \in Inputs : CallCapture(input)
    \/ \E k \in 0..MaxScopes : Return(k)

\* captures of inputs of any shape
SpecCapture == Init /\ [][NextCapture]_vars

(***************************************************************************)
(* Replay: serialization/value.rs, ValueDeserializer.  The consumer of a   *)
(* replay is a visitor of the caller; a replay results in                  *)
(* <<"Visit", call>>, the one callback it invokes on that visitor (and     *)
(* whose result it returns), or in an error.  The payload of visit_some    *)
(* and visit_newtype_struct is the Value of the deserializer handed over,  *)
(* that of visit_seq and visit_map the captured items the access offers,   *)
(* that of visit_enum the variant and the optional payload: <<>> for       *)
(* None, <<v>> for Some(v).                                                *)
(***************************************************************************)
\* Value::unexpected
Unexpected(v) ==
    CASE v[1] = "Bool" -> <<"Bool", v[2]>>
      [] v[1] \in {"U8", "U16", "U32", "U64"} -> <<"Unsigned", v[2]>>
      [] v[1] \in {"I8", "I16", "I32", "I64"} -> <<"Signed", v[2]>>
      [] v[1] \in {"F32", "F64"} -> <<"Float", v[2]>>
      [] v[1] = "Char" -> <<"Char", v[2]>>
      [] v[1] \in {"String", "Str"} -> <<"Str", v[2]>>
      [] v[1] \in {"ByteBuf", "Bytes"} -> <<"Bytes", v[2]>>
      [] v[1] \in {"None", "Some"} -> <<"Option">>
      [] v[1] = "Unit" -> <<"Unit">>
      [] v[1] = "Newtype" -> <<"NewtypeStruct">>
      [] v[1] = "Seq" -> <<"Seq">>
      [] v[1] = "Map" -> <<"Map">>

\* a variant of deserialize_integer that widens every number to 64 bits
DeserializeIntegerWidened(v) ==
    CASE v[1] \in {"U8", "U16", "U32", "U64"} -> <<"Visit", <<"visit_u64", v[2]>>>>
      [] v[1] \in {"I8", "I16", "I32", "I64"} -> <<"Visit", <<"visit_i64", v[2]>>>>
      [] OTHER -> Err(<<"invalid_type", Unexpected(v), <<"visitor">>>>)

\* ValueDeserializer::deserialize_integer
DeserializeInteger(v) ==
    CASE v[1] = "U8" -> <<"Visit", <<"visit_u8", v[2]>>>>
      [] v[1] = "U16" -> <<"Visit", <<"visit_u16", v[2]>>>>
      [] v[1] = "U32" -> <<"Visit", <<"visit_u32", v[2]>>>>
      [] v[1] = "U64" -> <<"Visit", <<"visit_u64", v[2]>>>>
      [] v[1] = "I8" -> <<"Visit", <<"visit_i8", v[2]>>>>
      [] v[1] = "I16" -> <<"Visit", <<"visit_i16", v[2]>>>>
      [] v[1] = "I32" -> <<"Visit", <<"visit_i32", v[2]>>>>
      [] v[1] = "I64" -> <<"Visit", <<"visit_i64", v[2]>>>>
      [] OTHER -> Err(<<"invalid_type", Unexpected(v), <<"visitor">>>>)

\* a variant of deserialize_any that hands a borrowed string over as a
\* transient one
DeserializeAnyTransient(v) ==
    CASE v[1] = "Bool" -> <<"Visit", <<"visit_bool", v[2]>>>>
      [] v[1] = "U8" -> <<"Visit", <<"visit_u8", v[2]>>>>
      [] v[1] = "U16" -> <<"Visit", <<"visit_u16", v[2]>>>>
      [] v[1] = "U32" -> <<"Visit", <<"visit_u32", v[2]>>>>
      [] v[1] = "U64" -> <<"Visit", <<"visit_u64", v[2]>>>>
      [] v[1] = "I8" -> <<"Visit", <<"visit_i8", v[2]>>>>
      [] v[1] = "I16" -> <<"Visit", <<"visit_i16", v[2]>>>>
      [] v[1] = "I32" -> <<"Visit", <<"visit_i32", v[2]>>>>
      [] v[1] = "I64" -> <<"Visit", <<"visit_i64", v[2]>>>>
      [] v[1] = "F32" -> <<"Visit", <<"visit_f32", v[2]>>>>
      [] v[1] = "F64" -> <<"Visit", <<"visit_f64", v[2]>>>>
      [] v[1] = "Char" -> <<"Visit", <<"visit_char", v[2]>>>>
      [] v[1] = "String" -> <<"Visit", <<"visit_string", v[2]>>>>
      [] v[1] = "Str" -> <<"Visit", <<"visit_str", v[2]>>>>
      [] v[1] = "ByteBuf" -> <<"Visit", <<"visit_byte_buf", v[2]>>>>
      [] v[1] = "Bytes" -> <<"Visit", <<"visit_borrowed_bytes", v[2]>>>>
      [] v[1] = "Unit" -> <<"Visit", <<"visit_unit">>>>
      [] v[1] = "None" -> <<"Visit", <<"visit_none">>>>
      [] v[1] = "Some" -> <<"Visit", <<"visit_some", v[2]>>>>
      [] v[1] = "Newtype" -> <<"Visit", <<"visit_newtype_struct", v[2]>>>>
      [] v[1] = "Seq" -> <<"Visit", <<"visit_seq", v[2]>>>>
      [] v[1] = "Map" -> <<"Visit", <<"visit_map", v[2]>>>>

\* ValueDeserializer::deserialize_any
DeserializeAny(v) ==
    CASE v[1] = "Bool" -> <<"Visit", <<"visit_bool", v[2]>>>>
      [] v[1] = "U8" -> <<"Visit", <<"visit_u8", v[2]>>>>
      [] v[1] = "U16" -> <<"Visit", <<"visit_u16", v[2]>>>>
      [] v[1] = "U32" -> <<"Visit", <<"visit_u32", v[2]>>>>
      [] v[1] = "U64" -> <<"Visit", <<"visit_u64", v[2]>>>>
      [] v[1] = "I8" -> <<"Visit", <<"visit_i8", v[2]>>>>
      [] v[1] = "I16" -> <<"Visit", <<"visit_i16", v[2]>>>>
      [] v[1] = "I32" -> <<"Visit", <<"visit_i32", v[2]>>>>
      [] v[1] = "I64" -> <<"Visit", <<"visit_i64", v[2]>>>>
      [] v[1] = "F32" -> <<"Visit", <<"visit_f32", v[2]>>>>
      [] v[1] = "F64" -> <<"Visit", <<"visit_f64", v[2]>>>>
      [] v[1] = "Char" -> <<"Visit", <<"visit_char", v[2]>>>>
      [] v[1] = "String" -> <<"Visit", <<"visit_string", v[2]>>>>
      [] v[1] = "Str" -> <<"Visit", <<"visit_borrowed_str", v[2]>>>>
      [] v[1] = "ByteBuf" -> <<"Visit", <<"visit_byte_buf", v[2]>>>>
      [] v[1] = "Bytes" -> <<"Visit", <<"visit_borrowed_bytes", v[2]>>>>
      [] v[1] = "Unit" -> <<"Visit", <<"visit_unit">>>>
      [] v[1] = "None" -> <<"Visit", <<"visit_none">>>>
      [] v[1] = "Some" -> <<"Visit", <<"visit_some", v[2]>>>>
      [] v[1] = "Newtype" -> <<"Visit", <<"visit_newtype_struct", v[2]>>>>
      [] v[1] = "Seq" -> <<"Visit", <<"visit_seq", v[2]>>>>
      [] v[1] = "Map" -> <<"Visit", <<"visit_map", v[2]>>>>

\* ValueDeserializer::deserialize_f32
DeserializeF32(v) ==
    CASE v[1] = "F32" -> <<"Visit", <<"visit_f32", v[2]>>>>
      [] v[1] = "F64" -> <<"Visit", <<"visit_f64", v[2]>>>>
      [] v[1] = "U64" -> <<"Visit", <<"visit_u64", v[2]>>>>
      [] v[1] = "I64" -> <<"Visit", <<"visit_i64", v[2]>>>>
      [] OTHER -> Err(<<"invalid_type", Unexpected(v), <<"visitor">>>>)

\* ValueDeserializer::deserialize_f64
DeserializeF64(v) ==
    CASE v[1] = "F64" -> <<"Visit", <<"visit_f64", v[2]>>>>
      [] v[1] = "U64" -> <<"Visit", <<"visit_u64", v[2]>>>>
      [] v[1] = "I64" -> <<"Visit", <<"visit_i64", v[2]>>>>
      [] OTHER -> Err(<<"invalid_type", Unexpected(v), <<"visitor">>>>)

\* ValueDeserializer::deserialize_string, deserialize_str
DeserializeString(v) ==
    CASE v[1] = "String" -> <<"Visit", <<"visit_string", v[2]>>>>
      [] v[1] = "Str" -> <<"Visit", <<"visit_borrowed_str", v[2]>>>>
      [] v[1] = "ByteBuf" -> <<"Visit", <<"visit_byte_buf", v[2]>>>>
      [] v[1] = "Bytes" -> <<"Visit", <<"visit_borrowed_bytes", v[2]>>>>
      [] OTHER -> Err(<<"invalid_type", Unexpected(v), <<"visitor">>>>)

\* ValueDeserializer::deserialize_unit
DeserializeUnit(v) ==
    CASE v[1] = "Unit" -> <<"Visit", <<"visit_unit">>>>
      [] OTHER -> Err(<<"invalid_type", Unexpected(v), <<"visitor">>>>)

\* ValueDeserializer::deserialize_unit_struct
DeserializeUnitStruct(v) ==
    IF v[1] = "Map" /\ Len(v[2]) = 0
    THEN <<"Visit", <<"visit_unit">>>>
    ELSE DeserializeAny(v)

\* a variant of deserialize_enum that takes the first entry of any map that
\* has one
DeserializeEnumFirstEntry(v) ==
    CASE v[1] = "Map" ->
            IF Len(v[2]) = 0
            THEN Err(<<"invalid_value", <<"Map">>, <<"map with a single key">>>>)
            ELSE <<"Visit", <<"visit_enum", v[2][1][1], <<v[2][1][2]>>>>>>
      [] v[1] \in {"String", "Str"} -> <<"Visit", <<"visit_enum", v, <<>>>>>>
      [] OTHER -> Err(<<"invalid_type", Unexpected(v), <<"string or map">>>>)

\* ValueDeserializer::deserialize_enum
DeserializeEnum(v) ==
    CASE v[1] = "Map" ->
            IF Len(v[2]) = 0
            THEN Err(<<"invalid_value", <<"Map">>, <<"map with a single key">>>>)
            ELSE IF Len(v[2]) > 1
            THEN Err(<<"invalid_value", <<"Map">>, <<"map with a single key">>>>)
            ELSE <<"Visit", <<"visit_enum", v[2][1][1], <<v[2][1][2]>>>>>>
      [] v[1] \in {"String", "Str"} -> <<"Visit", <<"visit_enum", v, <<>>>>>>
      [] OTHER -> Err(<<"invalid_type", Unexpected(v), <<"string or map">>>>)

\* impl Deserializer for ValueDeserializer: deserialize_<request>
Deserialize(request, v) ==
    CASE request = "any" -> DeserializeAny(v)
      [] request = "bool" ->
            IF v[1] = "Bool" THEN <<"Visit", <<"visit_bool", v[2]>>>>
            ELSE Err(<<"invalid_type", Unexpected(v), <<"visitor">>>>)
      [] request \in {"i8", "i16", "i32", "i64", "u8", "u16", "u32", "u64"} ->
            DeserializeInteger(v)
      [] request = "f32" -> DeserializeF32(v)
      [] request = "f64" -> DeserializeF64(v)
      [] request = "char" ->
            IF v[1] = "Char" THEN <<"Visit", <<"visit_char", v[2]>>>>
            ELSE IF v[1] \in {"String", "Str"} THEN DeserializeString(v)
            ELSE Err(<<"invalid_type", Unexpected(v), <<"visitor">>>>)
      [] request \in {"str", "string"} -> DeserializeString(v)
      [] request \in {"bytes", "byte_buf"} ->
            IF v[1] = "Seq" THEN <<"Visit", <<"visit_seq", v[2]>>>>
            ELSE DeserializeString(v)
      [] request = "option" ->
            CASE v[1] = "None" -> <<"Visit", <<"visit_none">>>>
              [] v[1] = "Some" -> <<"Visit", <<"visit_some", v[2]>>>>
              [] v[1] = "Unit" -> <<"Visit", <<"visit_unit">>>>
              [] OTHER -> <<"Visit", <<"visit_some", v>>>>
      [] request = "unit" -> DeserializeUnit(v)
      [] request = "unit_struct" -> DeserializeUnitStruct(v)
      [] request = "newtype_struct" ->
            IF v[1] = "Newtype" THEN <<"Visit", <<"visit_newtype_struct", v[2]>>>>
            ELSE <<"Visit", <<"visit_newtype_struct", v>>>>
      [] request \in {"seq", "tuple", "tuple_struct"} ->
            IF v[1] = "Seq" THEN <<"Visit", <<"visit_seq", v[2]>>>>
            ELSE Err(<<"invalid_type", Unexpected(v), <<"visitor">>>>)
      [] request = "map" ->
            IF v[1] = "Map" THEN <<"Visit", <<"visit_map", v[2]>>>>
            ELSE Err(<<"invalid_type", Unexpected(v), <<"visitor">>>>)
      [] request = "struct" ->
            IF v[1] \in {"Seq", "Map"} THEN DeserializeAny(v)
            ELSE Err(<<"invalid_type", Unexpected(v), <<"visitor">>>>)
      [] request = "enum" -> DeserializeEnum(v)
      [] request = "identifier" ->
            IF v[1] \in {"String", "Str", "ByteBuf", "Bytes"} THEN DeserializeString(v)
            ELSE IF v[1] = "U8" THEN <<"Visit", <<"visit_u8", v[2]>>>>
            ELSE Err(<<"invalid_type", Unexpected(v), <<"visitor">>>>)
      [] request = "ignored_any" -> <<"Visit", <<"visit_unit">>>>

\* a variant of unit_variant that drops the payload undecoded
UnitVariantDiscarding(value) == Ok(<<"()">>)

\* VariantDeserializer::unit_variant; the payload is decoded by
\* <() as Deserialize>::deserialize, whose visitor accepts visit_unit
UnitVariant(value) ==
    IF value = <<>> THEN Ok(<<"()">>)
    ELSE LET unit == DeserializeUnit(value[1])
         IN  IF IsErr(unit) THEN unit ELSE Ok(<<"()">>)

\* VariantDeserializer::newtype_variant_seed: the seed reads the payload
NewtypeVariantSeed(value) ==
    IF value = <<>>
    THEN Err(<<"invalid_type", <<"UnitVariant">>, <<"newtype variant">>>>)
    ELSE <<"Seed", value[1]>>

\* a variant of SeqDeserializer::deserialize_any without the unit case
SeqDeserializerAlwaysSeq(vec) == <<"Visit", <<"visit_seq", vec>>>>

\* SeqDeserializer::deserialize_any: the callback it invokes
SeqDeserializerAny(vec) ==
    IF Len(vec) = 0
    THEN <<"Visit", <<"visit_unit">>>>
    ELSE <<"Visit", <<"visit_seq", vec>>>>

\* VariantDeserializer::tuple_variant
TupleVariant(value) ==
    IF value = <<>>
    THEN Err(<<"invalid_type", <<"UnitVariant">>, <<"tuple variant">>>>)
    ELSE IF value[1][1] = "Seq"
    THEN SeqDeserializerAny(value[1][2])
    ELSE Err(<<"invalid_type", Unexpected(value[1]), <<"tuple variant">>>>)

\* VariantDeserializer::struct_variant; MapDeserializer::deserialize_any
\* invokes visit_map
StructVariant(value) ==
    IF value = <<>>
    THEN Err(<<"invalid_type", <<"UnitVariant">>, <<"struct variant">>>>)
    ELSE IF value[1][1] = "Map"
    THEN <<"Visit", <<"visit_map", value[1][2]>>>>
    ELSE IF value[1][1] = "Seq"
    THEN SeqDeserializerAny(value[1][2])
    ELSE Err(<<"invalid_type", Unexpected(value[1]), <<"struct variant">>>>)

\* a variant of visit_value_seq without the call of end()
VisitValueSeqLenient(value, iter, ret) == ret

\* visit_value_seq, after visit_seq has returned ret and left iter unread:
\* the `?`, then serde's SeqDeserializer::end
VisitValueSeq(value, iter, ret) ==
    IF IsErr(ret) THEN ret
    ELSE IF Len(iter) # 0
    THEN Err(<<"invalid_length", Len(value), <<"in seq", Len(value) - Len(iter)>>>>)
    ELSE ret

\* visit_value_map, after visit_map has returned ret and left iter unread:
\* the `?`, then serde's MapDeserializer::end
VisitValueMap(value, iter, ret) ==
    IF IsErr(ret) THEN ret
    ELSE IF Len(iter) # 0
    THEN Err(<<"invalid_length", Len(value), <<"in map", Len(value) - Len(iter)>>>>)
    ELSE ret

\* SeqDeserializer::deserialize_any, after its callback has returned ret and
\* left iter unread
SeqDeserializerEnd(vec, iter, ret) ==
    IF Len(vec) = 0 THEN ret
    ELSE IF IsErr(ret) THEN ret
    ELSE IF Len(iter) = 0 THEN ret
    ELSE Err(<<"invalid_length", Len(vec), <<"fewer elements in array">>>>)

\* Value::deserialize(ValueDeserializer::new(v)): deserialize_any drives
\* ValueVisitor, which captures every child in the same way and reads every
\* sequence and map to its end
RECURSIVE Recapture(_)
Recapture(v) ==
    LET visit == DeserializeAny(v)[2] IN
    CASE visit[1] = "visit_some" -> MapBoxed("Some", Recapture(visit[2]))
      [] visit[1] = "visit_newtype_struct" -> MapBoxed("Newtype", Recapture(visit[2]))
      [] visit[1] = "visit_seq" ->
            VisitValueSeq(visit[2], <<>>,
                          VisitSeq([i \in 1..Len(visit[2]) |-> Recapture(visit[2][i])]))
      [] visit[1] = "visit_map" ->
            VisitValueMap(visit[2], <<>>,
                          VisitMap([i \in 1..Len(visit[2]) |->
                                       NextEntry(Recapture(visit[2][i][1]),
                                                 Recapture(visit[2][i][2]))]))
      [] OTHER -> ValueVisitor(visit)

\* ValueDeserializer::deserialize_<request>(visitor) on a captured value
CallReplay(request, v) ==
    /\ call = Idle
    /\ call' = [op |-> "replay", request |-> request, arg |-> v,
                res |-> Deserialize(request, v)]
    /\ UNCHANGED <<registry, current, box, heap, cells, frames>>

\* the visitor of an enum request calls EnumDeserializer::variant_seed, which
\* hands the payload to a VariantDeserializer, and then one method of that
\* VariantAccess
CallVariant(method) ==
    /\ call.op = "replay"
    /\ call.res[1] = "Visit"
    /\ call.res[2][1] = "visit_enum"
    /\ LET variant == call.res[2][2]
           value == call.res[2][3]
       IN  call' = [op |-> "variant", method |-> method, variant |-> variant,
                    value |-> value,
                    res |-> CASE method = "unit_variant" -> UnitVariant(value)
                              [] method = "newtype_variant_seed" -> NewtypeVariantSeed(value)
                              [] method = "tuple_variant" -> TupleVariant(value)
                              [] method = "struct_variant" -> StructVariant(value)]
    /\ UNCHANGED <<registry, current, box, heap, cells, frames>>

\* Value::deserialize on the deserializer of a captured value
CallRecapture(v) ==
    /\ call = Idle
    /\ call' = [op |-> "recapture", arg |-> v, res |-> Recapture(v)]
    /\ UNCHANGED <<registry, current, box, heap, cells, frames>>

\* SeqAccess::next_element_seed: iter.next(), the element handed to the seed
\* as a ValueDeserializer.  The SeqAccess that a running visit_seq holds is
\* serde's SeqDeserializer over the captured elements on the way through
\* visit_value_seq, and the SeqDeserializer of this file on the way through a
\* variant.
NextElementSeed ==
    LET seq == IF call.op = "seq" THEN call
               ELSE [op |-> "seq",
                     route |-> IF call.op = "variant" THEN "SeqDeserializer"
                               ELSE "visit_value_seq",
                     vec |-> call.res[2][2], iter |-> call.res[2][2],
                     delivered |-> <<>>, last |-> <<>>, res |-> <<"Running">>]
    IN  /\ \/ call.op = "seq"
           \/ /\ call.op \in {"replay", "variant"}
              /\ call.res[1] = "Visit"
              /\ call.res[2][1] = "visit_seq"
        /\ call' = IF seq.iter = <<>>
                   THEN [seq EXCEPT !.last = <<"None">>]
                   ELSE [seq EXCEPT !.iter = Tail(@),
                                    !.delivered = Append(@, Head(seq.iter)),
                                    !.last = <<"Some", Head(seq.iter)>>]
        /\ UNCHANGED <<registry, current, box, heap, cells, frames>>

\* visit_seq returns ret to visit_value_seq or to
\* SeqDeserializer::deserialize_any
VisitSeqReturns(ret) ==
    LET started == call.op = "seq"
        route == IF started THEN call.route
                 ELSE IF call.op = "variant" THEN "SeqDeserializer"
                 ELSE "visit_value_seq"
        vec == IF started THEN call.vec ELSE call.res[2][2]
        iter == IF started THEN call.iter ELSE call.res[2][2]
        delivered == IF started THEN call.delivered ELSE <<>>
    IN  /\ \/ started
           \/ /\ call.op \in {"replay", "variant"}
              /\ call.res[1] = "Visit"
              /\ call.res[2][1] = "visit_seq"
        /\ call' = [op |-> "seq_done", route |-> route, vec |-> vec,
                    delivered |-> delivered, ret |-> ret,
                    res |-> IF route = "visit_value_seq"
                            THEN VisitValueSeq(vec, iter, ret)
                            ELSE SeqDeserializerEnd(vec, iter, ret)]
        /\ UNCHANGED <<registry, current, box, heap, cells, frames>>

\* a variant of next_value_seed that reads the pending value and leaves it
NextValueSeedPeeking ==
    LET map == IF call.op = "map" THEN call
               ELSE [op |-> "map", entries |-> call.res[2][2], iter |-> call.res[2][2],
                     value |-> <<>>, trace |-> <<>>, res |-> <<"Running">>]
    IN  /\ \/ call.op = "map"
           \/ /\ call.op = "variant"
              /\ call.method = "struct_variant"
              /\ call.res[1] = "Visit"
              /\ call.res[2][1] = "visit_map"
        /\ Len(map.trace) < MaxItems + 3
        /\ call' = IF map.value = <<>>
                   THEN [map EXCEPT !.trace = Append(@, <<"value",
                                        Err(<<"custom", <<"value is missing">>>>)>>)]
                   ELSE [map EXCEPT !.trace = Append(@, <<"value", Ok(map.value[1])>>)]
        /\ UNCHANGED <<registry, current, box, heap, cells, frames>>

\* MapDeserializer::next_key_seed, called by the visitor of a struct variant
\* on the MapDeserializer that MapDeserializer::new made of the payload;
\* trace lists the calls made on it and their results
NextKeySeed ==
    LET map == IF call.op = "map" THEN call
               ELSE [op |-> "map", entries |-> call.res[2][2], iter |-> call.res[2][2],
                     value |-> <<>>, trace |-> <<>>, res |-> <<"Running">>]
    IN  /\ \/ call.op = "map"
           \/ /\ call.op = "variant"
              /\ call.method = "struct_variant"
              /\ call.res[1] = "Visit"
              /\ call.res[2][1] = "visit_map"
        /\ Len(map.trace) < MaxItems + 3
        /\ call' = IF map.iter = <<>>
                   THEN [map EXCEPT !.trace = Append(@, <<"key", <<"None">>>>)]
                   ELSE [map EXCEPT !.iter = Tail(@),
                                    !.value = <<Head(map.iter)[2]>>,
                                    !.trace = Append(@, <<"key", <<"Some", Head(map.iter)[1]>>>>)]
        /\ UNCHANGED <<registry, current, box, heap, cells, frames>>

\* MapDeserializer::next_value_seed
NextValueSeed ==
    LET map == IF call.op = "map" THEN call
               ELSE [op |-> "map", entries |-> call.res[2][2], iter |-> call.res[2][2],
                     value |-> <<>>, trace |-> <<>>, res |-> <<"Running">>]
    IN  /\ \/ call.op = "map"
           \/ /\ call.op = "variant"
              /\ call.method = "struct_variant"
              /\ call.res[1] = "Visit"
              /\ call.res[2][1] = "visit_map"
        /\ Len(map.trace) < MaxItems + 3
        /\ call' = IF map.value = <<>>
                   THEN [map EXCEPT !.trace = Append(@, <<"value",
                                        Err(<<"custom", <<"value is missing">>>>)>>)]
                   ELSE [map EXCEPT !.value = <<>>,
                                    !.trace = Append(@, <<"value", Ok(map.value[1])>>)]
        /\ UNCHANGED <<registry, current, box, heap, cells, frames>>

NextReplay ==
    LET requests ==
            {"any", "bool", "i8", "i16", "i32", "i64", "u8", "u16", "u32", "u64",
             "f32", "f64", "char", "str", "string", "bytes", "byte_buf", "option",
             "unit", "unit_struct", "newtype_struct", "seq", "tuple", "tuple_struct",
             "map", "struct", "enum", "identifier", "ignored_any"}
        methods ==
            {"unit_variant", "newtype_variant_seed", "tuple_variant", "struct_variant"}
        inputs(d) == {i \in InputsUpTo(d) : IsOk(ValueVisitor(i))}
    IN  \/ \E request \in requests, i \in inputs(MaxDepth - 1) :
              CallReplay(request, ValueVisitor(i)[2])
        \/ \E i \in inputs(MaxDepth) : CallReplay("enum", ValueVisitor(i)[2])
        \/ \E method \in methods : CallVariant(method)
        \/ \E i \in inputs(MaxDepth) : CallRecapture(ValueVisitor(i)[2])
        \/ NextElementSeed
        \/ \E ret \in {Ok(<<"visited">>), Err(<<"custom", <<"visitor">>>>)} :
              VisitSeqReturns(ret)
        \/ NextKeySeed
        \/ NextValueSeed
        \/ \E k \in 0..MaxScopes : Return(k)

\* replays of captured values
SpecReplay == Init /\ [][NextReplay]_vars

(***************************************************************************)
(* Properties of the codec, stated over the calls recorded in `call`.      *)
(***************************************************************************)
\* the concrete types of a value's tagged nodes, at every nesting level
RECURSIVE NodeTypes(_)
NodeTypes(v) ==
    {TypeId(v)} \cup (IF TypeId(v) = Nested
                      THEN NodeTypes(Body(v)[1]) \cup NodeTypes(Body(v)[2])
                      ELSE {})

\* no other registration shares the short name of t
Unambiguous(reg, t) == \A u \in DOMAIN reg : ShortName(u) = ShortName(t) => u = t

\* t is registered with the Serialize and Deserialize capabilities and an
\* unambiguous short name
Codable(reg, t) ==
    /\ t \in DOMAIN reg
    /\ {"Serialize", "Deserialize"} \subseteq reg[t]
    /\ Unambiguous(reg, t)

\* C1: for a value all of whose types are registered with Serialize and
\* Deserialize and an unambiguous short name, decoding what serialize produced,
\* under the same ambient registry, succeeds and yields a value of the same
\* concrete type with the same fields at every nesting level.
RoundTrip ==
    (/\ call.op = "deserialize"
     /\ call.of[1] = "Some"
     /\ \A t \in NodeTypes(call.of[2]) : Codable(Top(current), t))
    => call.res = Ok(call.of[2])

\* the body of a value that has no tagged children, as its own Serialize
\* impl writes it
PlainBody(v) ==
    IF Shape(TypeId(v)) = "Value"
    THEN <<"Int", Body(v)>>
    ELSE <<"Seq", [i \in 1..Len(Body(v)) |-> <<"Int", Body(v)[i]>>]>>

\* doc is the envelope of v: `type` first, holding the short name, then the
\* own fields of a struct as sibling entries (a tagged child being an envelope
\* in turn), or the one entry `value` with the whole body
RECURSIVE IsEnvelope(_, _)
IsEnvelope(doc, v) ==
    LET t == TypeId(v)
    IN  /\ doc[1] = "Map"
        /\ Len(doc[2]) >= 1
        /\ doc[2][1] = <<"type", <<"Str", ShortName(t)>>>>
        /\ IF Shape(t) = "Struct"
           THEN /\ Len(doc[2]) = 1 + Len(FieldNames(t))
                /\ \A i \in 1..Len(FieldNames(t)) :
                      /\ doc[2][i + 1][1] = FieldNames(t)[i]
                      /\ IF FieldKinds(t)[i] = "i32"
                         THEN doc[2][i + 1][2] = <<"Int", Body(v)[i]>>
                         ELSE IsEnvelope(doc[2][i + 1][2], Body(v)[i])
           ELSE /\ Len(doc[2]) = 2
                /\ doc[2][2] = <<"value", PlainBody(v)>>

\* C2: whatever serialize emits is one map whose first key is `type`, holding
\* the short name, followed by the own fields of a struct-shaped value as
\* sibling keys, or by exactly the key `value` holding the whole body for a
\* value of any other shape.
EncodeWireShape ==
    (call.op = "serialize" /\ IsOk(call.res)) => IsEnvelope(call.res[2], call.arg)

\* a struct holding a tuple struct has been encoded
EncodeWireShapeWitness ==
    /\ call.op = "serialize"
    /\ IsOk(call.res)
    /\ TypeId(call.arg) = Nested
    /\ \E i \in 1..2 : TypeId(Body(call.arg)[i]) = Bar

\* the keys of an input map, and the last entry of a key
KeysOf(doc) == {doc[2][i][1] : i \in 1..Len(doc[2])}
LastOf(doc, k) ==
    LET i == CHOOSE x \in 1..Len(doc[2]) :
                 /\ doc[2][x][1] = k
                 /\ \A y \in (x + 1)..Len(doc[2]) : doc[2][y][1] # k
    IN  doc[2][i][2]

\* every field of an input map except `type`, captured
RemainingFields(doc) == [k \in KeysOf(doc) \ {"type"} |-> Capture(LastOf(doc, k))]

\* the `type` entries of an input document
TagsOf(doc) == IF doc[1] = "Map" THEN SelectSeq(doc[2], LAMBDA e : e[1] = "type") ELSE <<>>

\* the input has one `type` entry and it holds a string
Tagged(doc) == Len(TagsOf(doc)) = 1 /\ TagsOf(doc)[1][2][1] = "Str"
TagOf(doc) == TagsOf(doc)[1][2][2]

\* the registrations that carry the short name
Matches(reg, tag) == {t \in DOMAIN reg : ShortName(t) = tag}

\* C3: once the short name is resolved, a struct-shaped registration is
\* decoded from the whole map of captured fields other than `type`; any other
\* shape is decoded from the captured field `value` alone; when that field is
\* absent the decode ends with the error "expected field value" and the
\* concrete type's decoder is not invoked.
DecodeShapeBranch ==
    (call.op = "deserialize" /\ current # <<>> /\ Tagged(call.arg)) =>
        \A t \in Matches(Top(current), TagOf(call.arg)) :
            (Cardinality(Matches(Top(current), TagOf(call.arg))) = 1
                /\ "Deserialize" \in Top(current)[t]) =>
            IF Shape(t) = "Struct"
            THEN call.replay = <<"Fields", RemainingFields(call.arg)>>
            ELSE IF "value" \in KeysOf(call.arg)
            THEN call.replay = <<"Value", Capture(LastOf(call.arg, "value"))>>
            ELSE /\ call.res = Err(<<"custom", <<"expected field value">>>>)
                 /\ call.replay = <<"None">>

\* a tuple-struct envelope without its `value` entry has been decoded
DecodeShapeBranchWitness ==
    /\ call.op = "deserialize"
    /\ current # <<>>
    /\ Tagged(call.arg)
    /\ TagOf(call.arg) = "Bar"
    /\ Bar \in DOMAIN Top(current)
    /\ "value" \notin KeysOf(call.arg)
    /\ call.res = Err(<<"custom", <<"expected field value">>>>)

\* C4: with no registration or more than one under the tag's short name the
\* decode fails with UnregisteredShortName carrying the tag; with exactly one
\* that lacks Deserialize it fails with UnregisteredTrait naming Deserialize;
\* in both cases nothing of the captured body has been replayed.
DecodeRegistryResolution ==
    (call.op = "deserialize" /\ current # <<>> /\ Tagged(call.arg)) =>
        LET found == Matches(Top(current), TagOf(call.arg))
        IN  IF Cardinality(found) # 1
            THEN /\ call.res = Err(Custom(<<"UnregisteredShortName", TagOf(call.arg)>>))
                 /\ call.replay = <<"None">>
            ELSE \A t \in found :
                    "Deserialize" \notin Top(current)[t] =>
                        /\ call.res = Err(Custom(<<"UnregisteredTrait", t, "Deserialize">>))
                        /\ call.replay = <<"None">>

\* an input tagged with a short name that two registrations share has been
\* decoded
DecodeRegistryResolutionWitness ==
    /\ call.op = "deserialize"
    /\ current # <<>>
    /\ Tagged(call.arg)
    /\ Cardinality(Matches(Top(current), TagOf(call.arg))) = 2
    /\ IsErr(call.res)

(***************************************************************************)
(* Properties of the casting engine, stated over the calls recorded in     *)
(* `call`.                                                                 *)
(***************************************************************************)
CastOps == {"try_cast_ref", "try_cast_mut", "try_cast_box", "try_cast"}

\* the registry a cast call consulted: <<registry>>, or <<>> for the ambient
\* form on a thread without a current registry
Consulted ==
    IF call.form = "with_registry" THEN <<registry>>
    ELSE IF current = <<>> THEN <<>> ELSE <<Top(current)>>

\* the capabilities a value can be asked for: the traits, the raw reflectable
\* view, and its own concrete type
Capabilities(self) == Traits \cup {"Reflect", RuntimeType(self)}

CastBoxReturnsBox ==
    (call.op = "try_cast_box" /\ IsErr(call.res)) =>
        /\ Len(call.res) = 3
        /\ call.res[3] = call.self
        /\ box = <<"Some", call.self>>
        /\ Addr(call.self) \in DOMAIN heap
        /\ heap[Addr(call.self)] = Pointee(call.self)

\* try_cast_box has failed for a trait the registration does not declare
CastBoxReturnsBoxWitness ==
    /\ call.op = "try_cast_box"
    /\ call.form = "current"
    /\ IsErr(call.res)
    /\ call.res[2][1] = "UnregisteredTrait"

\* C7: when Cast::try_cast_with_registry or Cast::try_cast on a Box fails, the
\* caller gets the original box back.
CastReturnsBox ==
    (call.op = "try_cast" /\ call.recv = "Box<T>" /\ IsErr(call.res)) =>
        box = <<"Some", call.self>>

\* C8: with a registry supplied, a cast call returns the target view or a
\* TypeError, whatever the value and the target; it does not panic.
CastNeverPanics ==
    (call.op \in CastOps /\ Consulted # <<>>) => ~IsPanic(call.res)

\* C9: a cast of a value to its own concrete type or to dyn Reflect succeeds
\* whatever the registry holds.
UniversalCasters ==
    (/\ call.op \in CastOps
     /\ Consulted # <<>>
     /\ call.target \in {"Reflect", RuntimeType(call.self)})
    => IsOk(call.res)

\* C10: a successful cast yields a pointer to the object its input points to,
\* of the same concrete type; and after any chain of casts the box still
\* points to the object that was allocated at its address.
CastSymmetry ==
    /\ (call.op \in CastOps /\ IsOk(call.res)) =>
          /\ Addr(call.res[2]) = Addr(call.self)
          /\ Pointee(call.res[2]) = Pointee(call.self)
          /\ (call.recv = "Box<T>" => box = <<"Some", call.res[2]>>)
    /\ box[1] = "Some" =>
          /\ Addr(box[2]) \in DOMAIN heap
          /\ heap[Addr(box[2])] = Pointee(box[2])

\* a Box<dyn Trait2> obtained by a cast has been cast on to Box<dyn Trait1>
CastSymmetryWitness ==
    /\ call.op = "try_cast_box"
    /\ View(call.self) = "Trait2"
    /\ call.target = "Trait1"
    /\ IsOk(call.res)
    /\ box = <<"Some", call.res[2]>>

(***************************************************************************)
(* Properties of the ambient slots, stated over the threads' Cells, their  *)
(* active scopes and the last operation recorded in `call`.                *)
(***************************************************************************)
\* what the innermost active scope of a key installed on a call stack: <<t>>,
\* or <<>> when no scope of the key is active
Innermost(fs, key) ==
    LET own == ScopesOf(fs, key)
    IN  IF own = <<>> THEN <<>> ELSE <<own[Len(own)].t>>

\* C11: on every thread, whatever scopes it has entered and left (by return
\* or by unwinding), the registry slot holds the registry of the innermost
\* set_current scope that is still active and is unset when none is; so
\* with_current hands out that registry, and has_current is true exactly
\* when a scope is active.
AmbientStackDiscipline ==
    /\ \A th \in Threads :
          Cell(th, CURRENT_TYPE_REGISTRY) = Innermost(frames[th], CURRENT_TYPE_REGISTRY)
    /\ call.op = "has_current" =>
          call.res = (Innermost(frames[call.thread], CURRENT_TYPE_REGISTRY) # <<>>)
    /\ call.op = "with_current" =>
          call.res = IF Innermost(frames[call.thread], CURRENT_TYPE_REGISTRY) = <<>>
                     THEN NoRegistry
                     ELSE Ok(Innermost(frames[call.thread], CURRENT_TYPE_REGISTRY)[1])

\* with_current has run on a thread inside two nested set_current scopes that
\* installed different registries
AmbientStackDisciplineWitness ==
    /\ call.op = "with_current"
    /\ Len(frames[call.thread]) = 2
    /\ \A i \in 1..2 : frames[call.thread][i].key = CURRENT_TYPE_REGISTRY
    /\ frames[call.thread][1].t # frames[call.thread][2].t
    /\ call.res = Ok(frames[call.thread][2].t)

\* C12: called on a thread whose registry slot is unset, try_cast,
\* try_cast_box, try_cast_ref, try_cast_mut and serialize end in the panic of
\* the registry access: they return neither Ok nor a TypeError.
AmbientFailFast ==
    (/\ current = <<>>
     /\ \/ call.op = "serialize"
        \/ (call.op \in CastOps /\ call.form = "current"))
    => call.res = NoRegistry

\* serialize has been called without a current registry
AmbientFailFastWitness ==
    /\ call.op = "serialize"
    /\ current = <<>>
    /\ IsPanic(call.res)

\* the serialize() calls that are running on a thread, outermost first
Running(th) == ScopesOf(frames[th], CURRENTLY_SERIALIZING_TYPE)

\* C13: while values are encoded inside one another, the serializing-type
\* slot holds the short name of the value whose serialize() call is innermost,
\* so it holds the enclosing value's name again once an inner call has
\* returned; the tag that CurrentType writes is that name; and in the output
\* of every running call each envelope, at every depth, carries the short
\* name of its own value.
NestedTagging ==
    \A th \in Threads :
        /\ Cell(th, CURRENTLY_SERIALIZING_TYPE) =
              IF Running(th) = <<>> THEN <<>>
              ELSE <<ShortName(TypeId(Running(th)[Len(Running(th))].this))>>
        /\ (call.op = "CurrentType" /\ call.thread = th /\ Running(th) # <<>>) =>
              call.res = Ok(<<"Str", ShortName(TypeId(Running(th)[Len(Running(th))].this))>>)
        /\ \A i \in 1..Len(Running(th)) :
              LET out == serialize(Cell(th, CURRENT_TYPE_REGISTRY), Running(th)[i].val,
                                   Running(th)[i].this)
              IN  IsOk(out) /\ IsEnvelope(out[2], Running(th)[i].this)

\* the encode of a field of the test's tree has returned, and the encode of
\* the tree itself is the innermost one again
NestedTaggingWitness ==
    /\ call.op = "return"
    /\ Len(Running(call.thread)) = 1
    /\ Running(call.thread)[1].this = NestedValue
    /\ Cell(call.thread, CURRENTLY_SERIALIZING_TYPE) = <<"Nested">>

\* C14: a step of one thread (entering or leaving a scope of either key,
\* has_current, with_current, a read of the serializing type) leaves the
\* slots of every other thread as they were, and what with_current, has_current
\* and CurrentType hand to a thread is what that thread's own innermost scope
\* installed, whatever the other threads have installed.
ThreadIsolation ==
    [][/\ \A th \in Threads \ {call'.thread} :
             \A key \in Keys : cells'[LocalKey(th)][key] = cells[LocalKey(th)][key]
       /\ call'.op = "has_current" =>
             call'.res = (Innermost(frames'[call'.thread], CURRENT_TYPE_REGISTRY) # <<>>)
       /\ call'.op = "with_current" =>
             call'.res = WithCurrent(Innermost(frames'[call'.thread], CURRENT_TYPE_REGISTRY),
                             Ok(Top(Innermost(frames'[call'.thread], CURRENT_TYPE_REGISTRY))))
       /\ call'.op = "CurrentType" =>
             call'.res = WithCurrent(Innermost(frames'[call'.thread], CURRENTLY_SERIALIZING_TYPE),
                             Ok(<<"Str", Top(Innermost(frames'[call'.thread],
                                                       CURRENTLY_SERIALIZING_TYPE))>>))]_vars

\* with_current has handed a thread its registry while another thread had a
\* different registry installed and the two threads' serializing-type slots
\* differed
ThreadIsolationWitness ==
    /\ call.op = "with_current"
    /\ IsOk(call.res)
    /\ \E th \in Threads \ {call.thread} :
          /\ HasCurrent(Cell(th, CURRENT_TYPE_REGISTRY))
          /\ Top(Cell(th, CURRENT_TYPE_REGISTRY)) # call.res[2]
          /\ Cell(th, CURRENTLY_SERIALIZING_TYPE) # Cell(call.thread, CURRENTLY_SERIALIZING_TYPE)

\* C15: with a current registry that has no registration of the value's
\* runtime type, serialize fails with the custom error made of
\* UnregisteredType and the type's name; with a registration that lacks the
\* Serialize type data it fails with the custom error made of
\* UnregisteredTrait, the type's name and "Serialize"; it returns Ok in
\* neither case.
EncodeErrors ==
    (call.op = "serialize" /\ current # <<>>) =>
        LET reg == Top(current)
            t == TypeId(call.arg)
        IN  /\ t \notin DOMAIN reg =>
                  call.res = Err(Custom(<<"UnregisteredType", t>>))
            /\ (t \in DOMAIN reg /\ "Serialize" \notin reg[t]) =>
                  call.res = Err(Custom(<<"UnregisteredTrait", t, "Serialize">>))

\* a value whose type is registered with Trait1 and Trait2 only has been
\* handed to serialize
EncodeErrorsWitness ==
    /\ call.op = "serialize"
    /\ current # <<>>
    /\ TypeId(call.arg) \in DOMAIN Top(current)
    /\ "Serialize" \notin Top(current)[TypeId(call.arg)]
    /\ IsErr(call.res)

\* C16: an input map without a `type` entry is refused with the decoder's own
\* "missing field type" error, which is not made from a TypeError, and
\* nothing is handed to a concrete type's decoder; this is so whatever the
\* current registry holds, and also when no registry is current, in which
\* case the call still returns the error and does not panic.
MissingTypeField ==
    (/\ call.op = "deserialize"
     /\ call.arg[1] = "Map"
     /\ "type" \notin KeysOf(call.arg))
    => /\ call.res = Err(<<"missing field", "type">>)
       /\ call.replay = <<"None">>

\* an envelope without `type` has been decoded on a thread that has no
\* current registry
MissingTypeFieldWitness ==
    /\ call.op = "deserialize"
    /\ call.arg[1] = "Map"
    /\ "type" \notin KeysOf(call.arg)
    /\ Len(call.arg[2]) >= 1
    /\ current = <<>>
    /\ IsErr(call.res)

\* C17: when Box<dyn MyTrait> is decoded and deserialize() has produced a
\* value, the caller gets a box that views that value as dyn MyTrait if the
\* registration of the value's type has the MyTrait type data, and otherwise
\* the custom error made of UnregisteredTrait, the type's short name and
\* "MyTrait": not a panic, and not a box of another view.
BoxDynDecode ==
    (call.op = "deserialize_box" /\ IsOk(call.raw)) =>
        LET this == call.raw[2]
        IN  IF "MyTrait" \in Top(current)[TypeId(this)]
            THEN /\ IsOk(call.res)
                 /\ View(call.res[2]) = "MyTrait"
                 /\ Pointee(call.res[2]) = this
            ELSE call.res =
                    Err(Custom(<<"UnregisteredTrait", ShortName(TypeId(this)), "MyTrait">>))

\* the envelope of a number has been decoded as Box<dyn MyTrait> under a
\* registry in which i32 has no MyTrait type data
BoxDynDecodeWitness ==
    /\ call.op = "deserialize_box"
    /\ IsOk(call.raw)
    /\ TypeId(call.raw[2]) = I32
    /\ IsErr(call.res)

\* C18: whenever serialize has encoded a value, the output can be decoded
\* under the same registry, and serialize of the decoded value produces the
\* same output again.
EncodeIdempotence ==
    /\ (call.op = "deserialize" /\ call.of[1] = "Some") => IsOk(call.res)
    /\ call.op = "reserialize" => call.res = Ok(call.first)

\* C19: try_cast_box (in either form) returns Ok exactly when the borrowed
\* cast of the same box to the same target under the same registry returns
\* Ok; when it returns an error the caller still holds the box it passed in;
\* and it never ends in the panic of the unwrap on its second metadata
\* lookup.
OwnedCastValidated ==
    call.op = "try_cast_box" =>
        LET borrowed == CastResult("try_cast_ref", "&T", call.form, call.target, call.self)
        IN  /\ IsOk(call.res) <=> IsOk(borrowed)
            /\ IsErr(call.res) => (IsErr(borrowed) /\ box = <<"Some", call.self>>)
            /\ IsOk(call.res) => box = <<"Some", call.res[2]>>
            /\ call.res # <<"Panic", "called Result::unwrap() on an Err value">>

\* try_cast_box_with_registry has refused a box whose type is not registered
OwnedCastValidatedWitness ==
    /\ call.op = "try_cast_box"
    /\ call.form = "with_registry"
    /\ IsErr(call.res)
    /\ call.res[2][1] = "UnregisteredType"
    /\ box = <<"Some", call.self>>

\* f[1] + ... + f[n]
RECURSIVE SumTo(_, _)
SumTo(n, f) == IF n = 0 THEN 0 ELSE f[n] + SumTo(n - 1, f)

\* the visitor calls an input makes, one per primitive or composite
RECURSIVE Calls(_)
Calls(input) ==
    CASE input[1] \in {"visit_some", "visit_newtype_struct"} -> 1 + Calls(input[2])
      [] input[1] = "visit_seq" ->
            1 + SumTo(Len(input[2]), [i \in 1..Len(input[2]) |-> Calls(input[2][i])])
      [] input[1] = "visit_map" ->
            1 + SumTo(Len(input[2]), [i \in 1..Len(input[2]) |->
                         Calls(input[2][i][1]) + Calls(input[2][i][2])])
      [] OTHER -> 1

\* the nodes of a Value
RECURSIVE ValueNodes(_)
ValueNodes(v) ==
    CASE v[1] \in {"Some", "Newtype"} -> 1 + ValueNodes(v[2])
      [] v[1] = "Seq" ->
            1 + SumTo(Len(v[2]), [i \in 1..Len(v[2]) |-> ValueNodes(v[2][i])])
      [] v[1] = "Map" ->
            1 + SumTo(Len(v[2]), [i \in 1..Len(v[2]) |->
                         ValueNodes(v[2][i][1]) + ValueNodes(v[2][i][2])])
      [] OTHER -> 1

\* an enum is handed in somewhere in the input
RECURSIVE HasEnum(_)
HasEnum(input) ==
    CASE input[1] = "visit_enum" -> TRUE
      [] input[1] \in {"visit_some", "visit_newtype_struct"} -> HasEnum(input[2])
      [] input[1] = "visit_seq" -> \E i \in 1..Len(input[2]) : HasEnum(input[2][i])
      [] input[1] = "visit_map" ->
            \E i \in 1..Len(input[2]) : HasEnum(input[2][i][1]) \/ HasEnum(input[2][i][2])
      [] OTHER -> FALSE

\* v has the structure of the input: the same kind of node at every place,
\* items in the order of the input, borrowed and owned data told apart
RECURSIVE Mirrors(_, _)
Mirrors(v, input) ==
    CASE input[1] = "visit_borrowed_str" -> v = <<"Str", input[2]>>
      [] input[1] \in {"visit_str", "visit_string"} -> v = <<"String", input[2]>>
      [] input[1] = "visit_borrowed_bytes" -> v = <<"Bytes", input[2]>>
      [] input[1] \in {"visit_bytes", "visit_byte_buf"} -> v = <<"ByteBuf", input[2]>>
      [] input[1] = "visit_unit" -> v = <<"Unit">>
      [] input[1] = "visit_none" -> v = <<"None">>
      [] input[1] = "visit_some" -> v[1] = "Some" /\ Mirrors(v[2], input[2])
      [] input[1] = "visit_newtype_struct" -> v[1] = "Newtype" /\ Mirrors(v[2], input[2])
      [] input[1] = "visit_seq" ->
            /\ v[1] = "Seq"
            /\ Len(v[2]) = Len(input[2])
            /\ \A i \in 1..Len(input[2]) : Mirrors(v[2][i], input[2][i])
      [] input[1] = "visit_map" ->
            /\ v[1] = "Map"
            /\ Len(v[2]) = Len(input[2])
            /\ \A i \in 1..Len(input[2]) :
                  /\ Mirrors(v[2][i][1], input[2][i][1])
                  /\ Mirrors(v[2][i][2], input[2][i][2])
      [] OTHER -> Len(v) = 2 /\ v[2] = input[2]
                  /\ v[1] \notin {"Str", "String", "Bytes", "ByteBuf", "Some", "Newtype", "Seq", "Map"}

\* C20: capturing an input that hands in no enum yields a Value with exactly
\* one node per visitor call of the input, sequence elements and map entries
\* in input order with the entries of duplicate keys all kept, a borrowed
\* string or byte string as Str / Bytes and a transient or owned one as
\* String / ByteBuf.
ValueCaptureLossless ==
    (call.op = "capture" /\ ~HasEnum(call.arg)) =>
        /\ IsOk(call.res)
        /\ ValueNodes(call.res[2]) = Calls(call.arg)
        /\ Mirrors(call.res[2], call.arg)

\* a map that hands in the same transient key twice has been captured
ValueCaptureLosslessWitness ==
    /\ call.op = "capture"
    /\ call.arg[1] = "visit_map"
    /\ Len(call.arg[2]) = 2
    /\ call.arg[2][1][1] = <<"visit_str", "a">>
    /\ call.arg[2][2][1] = <<"visit_str", "a">>
    /\ call.arg[2][1][2] # call.arg[2][2][2]
    /\ IsOk(call.res)
    /\ Len(call.res[2][2]) = 2

\* the replay invoked a callback of the visitor
Visits(res) == res[1] = "Visit"

\* the Unexpected of an invalid-type error describes the Value v
Describes(unexp, v) ==
    CASE v[1] \in {"U8", "U16", "U32", "U64"} -> unexp = <<"Unsigned", v[2]>>
      [] v[1] \in {"I8", "I16", "I32", "I64"} -> unexp = <<"Signed", v[2]>>
      [] v[1] \in {"F32", "F64"} -> unexp = <<"Float", v[2]>>
      [] v[1] = "Bool" -> unexp = <<"Bool", v[2]>>
      [] v[1] = "Char" -> unexp = <<"Char", v[2]>>
      [] v[1] \in {"String", "Str"} -> unexp = <<"Str", v[2]>>
      [] v[1] \in {"ByteBuf", "Bytes"} -> unexp = <<"Bytes", v[2]>>
      [] v[1] \in {"None", "Some"} -> unexp = <<"Option">>
      [] v[1] = "Unit" -> unexp = <<"Unit">>
      [] v[1] = "Newtype" -> unexp = <<"NewtypeStruct">>
      [] v[1] = "Seq" -> unexp = <<"Seq">>
      [] v[1] = "Map" -> unexp = <<"Map">>

\* the result is an invalid-type error that describes v
IsInvalidType(res, v) ==
    IsErr(res) /\ res[2][1] = "invalid_type" /\ Describes(res[2][2], v)

IntegerRequests == {"i8", "i16", "i32", "i64", "u8", "u16", "u32", "u64"}

\* C21: an integer request of any width on a Value captured as one of the
\* eight integer variants hands the visitor the captured number in the
\* callback of the captured width and signedness (capturing that callback
\* gives the Value back), whatever width was asked for; on every other
\* variant, F32 and F64 included, it fails with an invalid-type error that
\* describes the captured variant.
IntegerReplay ==
    (call.op = "replay" /\ call.request \in IntegerRequests) =>
        IF call.arg[1] \in IntegerVariants
        THEN /\ Visits(call.res)
             /\ call.res[2][2] = call.arg[2]
             /\ ValueVisitor(call.res[2]) = Ok(call.arg)
        ELSE IsInvalidType(call.res, call.arg)

\* a 16-bit number that no i8 holds has been replayed for an i8 request
IntegerReplayWitness ==
    /\ call.op = "replay"
    /\ call.request = "i8"
    /\ call.arg = <<"U16", 65535>>
    /\ call.res = <<"Visit", <<"visit_u16", 65535>>>>

\* C22: a float32 request and a float64 request each reach the visitor on a
\* Value captured as F32, as F64 or as any of the eight integer variants,
\* and fail with an invalid-type error on every other variant.
FloatReplay ==
    (call.op = "replay" /\ call.request \in {"f32", "f64"}) =>
        IF call.arg[1] \in {"F32", "F64"} \cup IntegerVariants
        THEN Visits(call.res)
        ELSE IsInvalidType(call.res, call.arg)

\* C23: a captured map without entries replays as unit for the plain unit
\* request and for the unit-struct request alike; a map with entries never
\* replays as unit.
UnitFromEmptyMap ==
    (call.op = "replay" /\ call.request \in {"unit", "unit_struct"} /\ call.arg[1] = "Map") =>
        IF Len(call.arg[2]) = 0
        THEN call.res = <<"Visit", <<"visit_unit">>>>
        ELSE call.res # <<"Visit", <<"visit_unit">>>>

\* C24: an enum request invokes visit_enum exactly on a String or Str (the
\* variant is that string, without payload) and on a map with exactly one
\* entry (the variant is its key, the payload its value); a map without
\* entries, a map with two or more entries and every other variant end in an
\* error, and the visitor is not invoked.
EnumEnvelope ==
    (call.op = "replay" /\ call.request = "enum") =>
        CASE call.arg[1] \in {"String", "Str"} ->
                call.res = <<"Visit", <<"visit_enum", call.arg, <<>>>>>>
          [] call.arg[1] = "Map" /\ Len(call.arg[2]) = 1 ->
                call.res = <<"Visit", <<"visit_enum", call.arg[2][1][1],
                                       <<call.arg[2][1][2]>>>>>>
          [] OTHER -> IsErr(call.res)

\* an enum request on a map with two entries has failed
EnumEnvelopeWitness ==
    /\ call.op = "replay"
    /\ call.request = "enum"
    /\ call.arg[1] = "Map"
    /\ Len(call.arg[2]) = 2
    /\ IsErr(call.res)

\* C25: unit_variant succeeds on a variant without payload; a payload that
\* is present is replayed as unit and dropped, so unit_variant succeeds when
\* that replay does and returns its invalid-type error when it does not;
\* newtype_variant, tuple_variant and struct_variant fail with an
\* invalid-type error on a variant without payload.
UnitVariantReplay ==
    call.op = "variant" =>
        IF call.method = "unit_variant"
        THEN IF call.value = <<>>
             THEN call.res = Ok(<<"()">>)
             ELSE LET unit == Deserialize("unit", call.value[1])
                  IN  IF Visits(unit)
                      THEN call.res = Ok(<<"()">>)
                      ELSE call.res = unit /\ IsInvalidType(call.res, call.value[1])
        ELSE call.value = <<>> =>
                /\ IsErr(call.res)
                /\ call.res[2][1] = "invalid_type"
                /\ call.res[2][2] = <<"UnitVariant">>

\* unit_variant has been called on a variant whose payload is not a unit
UnitVariantReplayWitness ==
    /\ call.op = "variant"
    /\ call.method = "unit_variant"
    /\ call.value # <<>>
    /\ call.value[1][1] = "Seq"
    /\ IsErr(call.res)

\* C26: while a captured sequence is replayed -- through a seq, tuple,
\* tuple-struct or struct request, or as the payload of a tuple variant --
\* the consumer has received a prefix of the captured elements, in captured
\* order and none twice; when it stops before the end the replay fails with
\* an invalid-length error, and the replay returns the consumer's result
\* only when every element was read.
StrictSequenceReplay ==
    /\ call.op \in {"seq", "seq_done"} =>
          /\ Len(call.delivered) <= Len(call.vec)
          /\ call.delivered = SubSeq(call.vec, 1, Len(call.delivered))
    /\ (call.op = "seq_done" /\ IsOk(call.ret)) =>
          IF Len(call.delivered) < Len(call.vec)
          THEN IsErr(call.res) /\ call.res[2][1] = "invalid_length"
          ELSE call.res = call.ret

\* the consumer of a tuple-variant payload of two elements has stopped after
\* the first and the replay has failed
StrictSequenceReplayWitness ==
    /\ call.op = "seq_done"
    /\ call.route = "SeqDeserializer"
    /\ Len(call.vec) = 2
    /\ Len(call.delivered) = 1
    /\ IsOk(call.ret)
    /\ IsErr(call.res)

\* C27: replaying a Value through deserialize_any into the capture visitor
\* gives the same Value again: the same variant at every node, elements and
\* entries in the same order, duplicate keys kept, borrowed and owned
\* strings and byte strings not exchanged.
CaptureReplayRoundTrip ==
    call.op = "recapture" => call.res = Ok(call.arg)

\* a map that holds one borrowed key twice has been replayed and captured
CaptureReplayRoundTripWitness ==
    /\ call.op = "recapture"
    /\ call.arg[1] = "Map"
    /\ Len(call.arg[2]) = 2
    /\ call.arg[2][1][1] = <<"Str", "a">>
    /\ call.arg[2][2][1] = <<"Str", "a">>
    /\ call.res = Ok(call.arg)

\* C28: every flattened envelope that serialize produces for a struct-shaped
\* value holds the key `type` exactly once, whatever the struct's own field
\* names are, and the decode of that envelope reads back as the tag the short
\* name that encode wrote and, when that name resolves to one registration,
\* hands every own field of the struct to its decoder.
TagKeyUnique ==
    /\ (call.op = "serialize" /\ IsOk(call.res) /\ Shape(TypeId(call.arg)) = "Struct") =>
           Len(TagsOf(call.res[2])) = 1
    /\ (call.op = "deserialize" /\ call.of # <<"None">>
            /\ Shape(TypeId(call.of[2])) = "Struct") =>
           /\ Tagged(call.arg)
           /\ TagOf(call.arg) = ShortName(TypeId(call.of[2]))
           /\ Cardinality(Matches(Top(current), TagOf(call.arg))) = 1 =>
                  /\ call.replay[1] = "Fields"
                  /\ DOMAIN call.replay[2] =
                         {FieldNames(TypeId(call.of[2]))[i] :
                              i \in 1..Len(FieldNames(TypeId(call.of[2])))}

\* C29: when the payload of a tuple variant or of a struct variant is a
\* captured sequence with no elements, the replay invokes the consumer's unit
\* callback and not its sequence callback; for a payload of one or more
\* elements it invokes the sequence callback, over exactly those elements.
EmptySequenceVariantPayload ==
    (/\ call.op = "variant"
     /\ call.method \in {"tuple_variant", "struct_variant"}
     /\ call.value # <<>>
     /\ call.value[1][1] = "Seq") =>
        /\ call.res[1] = "Visit"
        /\ Len(call.value[1][2]) = 0 => call.res[2] = <<"visit_unit">>
        /\ Len(call.value[1][2]) > 0 => call.res[2] = <<"visit_seq", call.value[1][2]>>

\* a struct variant replayed over an empty captured sequence has invoked the
\* unit callback
EmptySequenceVariantPayloadWitness ==
    /\ call.op = "variant"
    /\ call.method = "struct_variant"
    /\ call.value = <<<<"Seq", <<>>>>>>
    /\ call.res = <<"Visit", <<"visit_unit">>>>

\* the number of next_key_seed calls among the first p calls of a trace
KeyCalls(trace, p) == Cardinality({r \in 1..p : trace[r][1] = "key"})

\* the p-th call is a next_key_seed and answers as the protocol says: the
\* key of the i-th entry for the i-th such call, no more keys past the last
KeyInOrder(entries, trace, p) ==
    LET i == KeyCalls(trace, p)
    IN  trace[p][2] = IF i <= Len(entries) THEN <<"Some", entries[i][1]>> ELSE <<"None">>

\* a next_value_seed right after the i-th next_key_seed yields the value of
\* the i-th entry
ValueFollowsKey(entries, trace, p) ==
    LET i == KeyCalls(trace, p)
    IN  (p > 1 /\ trace[p - 1][1] = "key" /\ i <= Len(entries)) =>
            trace[p][2] = Ok(entries[i][2])

\* between two delivered values a next_key_seed has handed out a key
NeverTwice(trace) ==
    \A p, q \in 1..Len(trace) :
        (p < q /\ trace[p][1] = "value" /\ trace[q][1] = "value"
              /\ IsOk(trace[p][2]) /\ IsOk(trace[q][2])) =>
            \E r \in (p + 1)..(q - 1) : trace[r][1] = "key" /\ trace[r][2][1] = "Some"

\* before the p-th call a key was handed out whose value has not been asked
\* for since
Pending(trace, p) ==
    \E r \in 1..(p - 1) :
        /\ trace[r][1] = "key"
        /\ trace[r][2][1] = "Some"
        /\ \A s \in (r + 1)..(p - 1) : trace[s][1] = "key"

ValueIsMissing == Err(<<"custom", <<"value is missing">>>>)

\* C30, as stated: over the entries e1..en of a struct variant's captured
\* map, under any sequence of next_key_seed and next_value_seed calls, the
\* i-th next_key_seed yields the key of e_i and no more keys once i > n; a
\* next_value_seed right after it yields the value of e_i; a next_value_seed
\* before any key, a second time after one key, or after the keys ran out
\* returns the error "value is missing"; no value is delivered twice.
MapReplayProtocol ==
    call.op = "map" =>
        /\ \A p \in 1..Len(call.trace) :
              IF call.trace[p][1] = "key"
              THEN KeyInOrder(call.entries, call.trace, p)
              ELSE /\ ValueFollowsKey(call.entries, call.trace, p)
                   /\ (\/ KeyCalls(call.trace, p) = 0
                       \/ call.trace[p - 1][1] = "value"
                       \/ KeyCalls(call.trace, p) > Len(call.entries)) =>
                          call.trace[p][2] = ValueIsMissing
        /\ NeverTwice(call.trace)

\* C30, amended: keys and the values asked for right after them come in the
\* order of the entries; a next_value_seed returns the error
\* "value is missing" exactly when no value is pending (before any key, a
\* second time after one key, or after the keys ran out once the last value
\* was taken); a value still pending when the keys run out is delivered by
\* the next next_value_seed; no value is delivered twice.
MapReplayProtocolPending ==
    call.op = "map" =>
        /\ \A p \in 1..Len(call.trace) :
              IF call.trace[p][1] = "key"
              THEN KeyInOrder(call.entries, call.trace, p)
              ELSE /\ ValueFollowsKey(call.entries, call.trace, p)
                   /\ call.trace[p][2] = ValueIsMissing <=> ~Pending(call.trace, p)
                   /\ (Pending(call.trace, p)
                          /\ KeyCalls(call.trace, p) > Len(call.entries)) =>
                          call.trace[p][2] = Ok(call.entries[Len(call.entries)][2])
        /\ NeverTwice(call.trace)

\* the keys of a one-entry map ran out before its value was asked for: the
\* value was then delivered once, and asking again gave the error
MapReplayProtocolPendingWitness ==
    /\ call.op = "map"
    /\ Len(call.entries) = 1
    /\ Len(call.trace) = 4
    /\ call.trace[1] = <<"key", <<"Some", call.entries[1][1]>>>>
    /\ call.trace[2] = <<"key", <<"None">>>>
    /\ call.trace[3] = <<"value", Ok(call.entries[1][2])>>
    /\ call.trace[4] = <<"value", ValueIsMissing>>

====
